---------------------------- MODULE LossyProofs -----------------------------
(***************************************************************************)
(* Proofs about the lossy codecs: Image and Audio, in the composition      *)
(* MCLossy of the two, for images and recordings of every size and every   *)
(* quality, and Video, for every number of frames and every group.         *)
(***************************************************************************)
EXTENDS MCLossy, Video, FiniteSetTheorems, SequenceTheorems, WellFoundedInduction, TLAPS

-----------------------------------------------------------------------------
(* Numbers *)

\* A set of natural numbers has a least.
LEMMA LeastOf ==
  ASSUME NEW S, S \subseteq Nat, S # {}
  PROVE  \E m \in S : \A k \in S : m <= k
<1> DEFINE R == OpToRel(<, Nat)
<1>1. IsWellFoundedOn(R, Nat)
  BY NatLessThanWellFounded
<1>2. PICK m \in S : \A k \in S : <<k, m>> \notin R
  <2> HIDE DEF R
  <2> QED BY <1>1, WFMin
<1>3. \A k \in S : ~(k < m)
  BY <1>2 DEF OpToRel
<1> QED BY <1>3

\* What holds of 0 and goes on holding holds up to m.
LEMMA UpTo ==
  ASSUME NEW m \in Nat, NEW G, 0 \in G,
         \A k \in 0 .. m - 1 : k \in G => k + 1 \in G
  PROVE  \A k \in 0 .. m : k \in G
<1> DEFINE B == {k \in 0 .. m : k \notin G}
<1> SUFFICES ASSUME B # {} PROVE FALSE
  OBVIOUS
<1>1. PICK b \in B : \A k \in B : b <= k
  <2>1. B \subseteq Nat
    OBVIOUS
  <2> HIDE DEF B
  <2> QED BY <2>1, LeastOf
<1>2. b \in 0 .. m /\ b # 0
  OBVIOUS
<1>3. b - 1 \in 0 .. m - 1 /\ b - 1 \in G /\ (b - 1) + 1 = b
  BY <1>1, <1>2
<1>4. (b - 1) + 1 \in G
  BY <1>3
<1> QED BY <1>3, <1>4

-----------------------------------------------------------------------------
(* The sum of a row *)

\* The sums of the first pixels, one by one.
SumsOf(row, f, m) == \A k \in 0 .. m : f[k] = IF k = 0 THEN 0 ELSE f[k - 1] + row[k]

\* There are such sums.
LEMMA SumsExist ==
  ASSUME NEW row \in Seq(Nat), NEW m \in 0 .. Len(row)
  PROVE  \E f \in [0 .. m -> Nat] : SumsOf(row, f, m)
<1> DEFINE G == {j \in 0 .. m : \E f \in [0 .. j -> Nat] : SumsOf(row, f, j)}
<1>1. 0 \in G
  <2>1. [k \in 0 .. 0 |-> 0] \in [0 .. 0 -> Nat] /\ SumsOf(row, [k \in 0 .. 0 |-> 0], 0)
    BY DEF SumsOf
  <2>2. \E f \in [0 .. 0 -> Nat] : SumsOf(row, f, 0)
    BY <2>1
  <2> QED BY <2>2
<1>2. ASSUME NEW j \in 0 .. m - 1, j \in G PROVE j + 1 \in G
  <2>1. PICK f \in [0 .. j -> Nat] : SumsOf(row, f, j)
    BY <1>2
  <2>2. j \in Nat /\ f[j] \in Nat /\ row[j + 1] \in Nat /\ j + 1 \in 0 .. m
    OBVIOUS
  <2> DEFINE g == [k \in 0 .. j + 1 |-> IF k = j + 1 THEN f[j] + row[j + 1] ELSE f[k]]
  <2>3. g \in [0 .. j + 1 -> Nat]
    BY <2>2
  <2>4. g[j + 1] = f[j] + row[j + 1] /\ \A k \in 0 .. j : g[k] = f[k]
    BY <2>2
  <2> HIDE DEF g
  <2>5. ASSUME NEW k \in 0 .. j + 1 PROVE g[k] = IF k = 0 THEN 0 ELSE g[k - 1] + row[k]
    <3>1. CASE k = j + 1
      <4>1. k # 0 /\ k - 1 = j /\ j \in 0 .. j
        BY <2>2, <3>1
      <4> QED BY <2>4, <3>1, <4>1
    <3>2. CASE k # j + 1
      <4>1. k \in 0 .. j /\ (k # 0 => k - 1 \in 0 .. j)
        BY <2>2, <3>2
      <4> QED BY <2>1, <2>4, <4>1 DEF SumsOf
    <3> QED BY <3>1, <3>2
  <2>6. SumsOf(row, g, j + 1)
    BY <2>5 DEF SumsOf
  <2>7. \E h \in [0 .. j + 1 -> Nat] : SumsOf(row, h, j + 1)
    BY <2>3, <2>6
  <2> QED BY <2>2, <2>7
<1>3. m \in G
  <2>1. m \in Nat
    OBVIOUS
  <2>3. \A j \in 0 .. m - 1 : j \in G => j + 1 \in G
    BY <1>2
  <2> HIDE DEF G
  <2>2. \A j \in 0 .. m : j \in G
    BY <1>1, <2>1, <2>3, UpTo
  <2> QED BY <2>1, <2>2
<1> QED BY <1>3

\* The sum of pixels is a number, and not more than that of as many white ones.
LEMMA SumIs ==
  ASSUME NEW max \in Nat, NEW row \in Seq(0 .. max)
  PROVE  SumOf(row) \in Nat /\ SumOf(row) <= Len(row) * max
<1> DEFINE len == Len(row)
           IsSum(f) == f = [k \in 0 .. len |-> IF k = 0 THEN 0 ELSE f[k - 1] + row[k]]
           sum == CHOOSE f : IsSum(f)
<1>1. len \in Nat /\ row \in Seq(Nat) /\ \A i \in 1 .. len : row[i] \in 0 .. max
  OBVIOUS
<1>2. SumOf(row) = sum[len]
  BY DEF SumOf
<1>3. IsSum(sum)
  <2>1. PICK f \in [0 .. len -> Nat] : SumsOf(row, f, len)
    BY <1>1, SumsExist
  <2>2. IsSum(f)
    BY <2>1 DEF SumsOf
  <2> HIDE DEF IsSum
  <2> QED BY <2>2
<1>4. \A k \in 0 .. len : sum[k] = IF k = 0 THEN 0 ELSE sum[k - 1] + row[k]
  <2>1. sum = [k \in 0 .. len |-> IF k = 0 THEN 0 ELSE sum[k - 1] + row[k]]
    BY <1>3
  <2> HIDE DEF IsSum
  <2> QED BY <2>1
<1> HIDE DEF sum, IsSum
<1> DEFINE G == {k \in 0 .. len : sum[k] \in Nat /\ sum[k] <= k * max}
<1>5. 0 \in G
  BY <1>1, <1>4
<1>6. ASSUME NEW k \in 0 .. len - 1, k \in G PROVE k + 1 \in G
  <2> DEFINE j == k + 1
  <2>1. j \in 1 .. len /\ j # 0 /\ j - 1 = k /\ j \in 0 .. len
    BY <1>1
  <2> DEFINE km == k * max
  <2>2. j * max = km + max /\ km \in Nat
    OBVIOUS
  <2> HIDE DEF j, km
  <2>3. sum[j] = sum[k] + row[j] /\ row[j] \in 0 .. max
    BY <1>1, <1>4, <2>1
  <2>4. sum[k] \in Nat /\ sum[k] <= km
    BY <1>6 DEF km
  <2>5. sum[j] \in Nat /\ sum[j] <= km + max
    BY <2>2, <2>3, <2>4
  <2>6. sum[j] <= j * max
    BY <2>2, <2>5
  <2> QED BY <2>1, <2>5, <2>6 DEF j
<1>7. len \in G
  <2>1. len \in Nat /\ \A k \in 0 .. len - 1 : k \in G => k + 1 \in G
    BY <1>1, <1>6
  <2> HIDE DEF G, len
  <2>2. \A k \in 0 .. len : k \in G
    BY <1>5, <2>1, UpTo
  <2> QED BY <2>1, <2>2
<1> QED BY <1>2, <1>7


-----------------------------------------------------------------------------
(* A row *)

\* What a fit may be off by.
Within(a, b, q) == a - b <= q /\ b - a <= q

\* As the code measures it.
LEMMA WithinIs ==
  ASSUME NEW a \in Int, NEW b \in Int, NEW q \in Int, Within(a, b, q)
  PROVE  Distance(a, b) <= q
BY DEF Distance, Within

\* The mean of len pixels that add up to sum, rounded; and a pixel within q of it.
MeanOf(len, sum) == (2 * sum + len) \div (2 * len)
NearMean(len, sum, x, q) == Distance(len * x, sum) <= len * q

\* When every pixel is within q of the mean, it is within q of the mean rounded: the
\* numbers on both sides are whole.
LEMMA MeanRounds ==
  ASSUME NEW len \in Nat \ {0}, NEW sum \in Nat, NEW q \in Nat, NEW x \in Nat,
         NearMean(len, sum, x, q)
  PROVE  MeanOf(len, sum) \in Nat /\ Within(MeanOf(len, sum), x, q)
<1> USE DEF MeanOf, NearMean
<1> DEFINE c == (2 * sum + len) \div (2 * len)
           d == 2 * len
           a == 2 * sum + len
<1>1. d \in Nat \ {0} /\ a \in Nat
  OBVIOUS
<1>2. c \in Nat /\ d * c <= a /\ a < d * c + d
  <2> HIDE DEF d, a
  <2>1. a \div d \in Nat /\ d * (a \div d) <= a /\ a < d * (a \div d) + d
    BY <1>1
  <2> QED BY <2>1 DEF a, d
<1> HIDE DEF c
<1>3. PICK lx \in Nat, lq \in Nat, lc \in Nat : lx = len * x /\ lq = len * q /\ lc = len * c
  BY <1>2
<1>4. d * c = 2 * lc
  BY <1>2, <1>3
<1>5. 2 * lc <= 2 * sum + len /\ 2 * sum + len < 2 * lc + 2 * len
  BY <1>2, <1>4
<1>6. lx - sum <= lq /\ sum - lx <= lq
  BY <1>3 DEF Distance
<1>7. c - x <= q
  <2> SUFFICES ASSUME c >= x + q + 1 PROVE FALSE
    BY <1>2
  <2>1. len * c >= len * (x + q + 1)
    BY <1>2
  <2>2. len * (x + q + 1) = lx + lq + len
    BY <1>3
  <2> QED BY <1>3, <1>5, <1>6, <2>1, <2>2
<1>8. x - c <= q
  <2> SUFFICES ASSUME x >= c + q + 1 PROVE FALSE
    BY <1>2
  <2>1. len * x >= len * (c + q + 1)
    BY <1>2
  <2>2. len * (c + q + 1) = lc + lq + len
    BY <1>2, <1>3
  <2> QED BY <1>3, <1>5, <1>6, <2>1, <2>2
<1> QED BY <1>2, <1>7, <1>8 DEF Within, c

\* The mean of pixels is one.
LEMMA MeanIsPixel ==
  ASSUME NEW max \in Nat, NEW len \in Nat \ {0}, NEW sum \in Nat, sum <= len * max
  PROVE  (2 * sum + len) \div (2 * len) \in 0 .. max
<1> DEFINE c == (2 * sum + len) \div (2 * len)
           d == 2 * len
           a == 2 * sum + len
<1>1. d \in Nat \ {0} /\ a \in Nat
  OBVIOUS
<1>2. c \in Nat /\ d * c <= a
  <2> HIDE DEF d, a
  <2>1. a \div d \in Nat /\ d * (a \div d) <= a
    BY <1>1
  <2> QED BY <2>1 DEF a, d
<1> HIDE DEF c
<1>3. PICK lm \in Nat, lc \in Nat : lm = len * max /\ lc = len * c
  BY <1>2
<1>4. d * c = 2 * lc
  BY <1>2, <1>3
<1>5. c <= max
  <2> SUFFICES ASSUME c >= max + 1 PROVE FALSE
    BY <1>2
  <2>1. len * c >= len * (max + 1)
    BY <1>2
  <2>2. len * (max + 1) = lm + len
    BY <1>3
  <2> QED BY <1>2, <1>3, <1>4, <2>1, <2>2
<1> QED BY <1>2, <1>5 DEF c

\* Rounding and clamping half values leaves them as near to a pixel as they were.
LEMMA PixelWithin ==
  ASSUME NEW x \in 0 .. MaxPixel, NEW q \in Nat, NEW e \in - (2 * q) .. 2 * q
  PROVE  Pixel(2 * x + e) \in 0 .. MaxPixel /\ Within(Pixel(2 * x + e), x, q)
<1> DEFINE h == 2 * x + e
<1>1. MaxPixel \in Nat /\ h \in Int /\ h <= 2 * (x + q) /\ h >= 2 * (x - q)
  BY LossyRowAssumption
<1> HIDE DEF h
<1>2. /\ (h + 1) \div 2 \in Int /\ (h + 1) \div 2 <= x + q /\ (h + 1) \div 2 >= x - q
      /\ h >= 0 => (h + 1) \div 2 >= 0
  BY <1>1
<1>3. Pixel(h) \in 0 .. MaxPixel /\ Within(Pixel(h), x, q)
  <2>1. CASE h < 0
    BY <1>1, <2>1 DEF Pixel, Within
  <2>2. CASE h >= 0
    BY <1>1, <1>2, <2>2 DEF Pixel, Within
  <2> QED BY <1>1, <2>1, <2>2
<1> QED BY <1>3 DEF h


\* Any encoding a row may get gives back a row of pixels, each within q of what it was.
LEMMA FitWithin ==
  ASSUME NEW row \in Seq(0 .. MaxPixel), NEW q \in Nat, NEW enc \in FitRowLossy(row, q)
  PROVE  /\ enc.len \in Nat
         /\ ReconstructRow(enc, Len(row)) \in [DOMAIN row -> 0 .. MaxPixel]
         /\ \A i \in DOMAIN row : Within(ReconstructRow(enc, Len(row))[i], row[i], q)
<1> DEFINE len == Len(row)
           got == ReconstructRow(enc, len)
<1>1. /\ len \in Nat /\ DOMAIN row = 1 .. len /\ MaxPixel \in Nat
      /\ \A i \in 1 .. len : row[i] \in 0 .. MaxPixel
      /\ row \in [1 .. len -> 0 .. MaxPixel]
  BY LossyRowAssumption
<1>2. CASE ConstFits(row, q)
  <2>1. enc = [tag |-> "CONST", params |-> ConstOf(row), len |-> PixelBytes]
    BY <1>2 DEF FitRowLossy
  <2>2. got = [i \in 1 .. len |-> ConstOf(row)] /\ enc.len \in Nat
    BY <2>1, LossyRowAssumption DEF ReconstructRow
  <2>3. CASE row = <<>>
    BY <1>1, <2>2, <2>3
  <2>4. CASE row # <<>>
    <3>1. len # 0 /\ SumOf(row) \in Nat /\ SumOf(row) <= len * MaxPixel
      BY <1>1, <2>4, SumIs
    <3>2. ConstOf(row) = (2 * SumOf(row) + len) \div (2 * len)
      BY <2>4 DEF ConstOf
    <3> DEFINE sum == SumOf(row)
               c == (2 * sum + len) \div (2 * len)
    <3> HIDE DEF len, sum
    <3>3. c \in 0 .. MaxPixel
      BY <1>1, <3>1, MeanIsPixel DEF sum
    <3>4. ASSUME NEW i \in 1 .. len PROVE Within(c, row[i], q)
      <4>1. i \in DOMAIN row /\ row[i] \in Nat
        BY <1>1 DEF len
      <4>2. len \in Nat \ {0} /\ sum \in Nat /\ q \in Nat
        BY <1>1, <3>1 DEF sum
      <4>3. NearMean(len, sum, row[i], q)
        BY <1>2, <4>1, Zenon DEF ConstFits, NearMean, len, sum
      <4>4. Within(MeanOf(len, sum), row[i], q)
        BY <4>1, <4>2, <4>3, MeanRounds
      <4>5. c = MeanOf(len, sum)
        BY Zenon DEF MeanOf
      <4> HIDE DEF c
      <4> QED BY <4>4, <4>5
    <3> HIDE DEF c
    <3>5. ConstOf(row) = c
      BY <3>2 DEF c, sum
    <3> QED BY <1>1, <2>2, <3>3, <3>4, <3>5 DEF len
  <2> QED BY <2>3, <2>4
<1>3. CASE ~ConstFits(row, q) /\ enc \in {[tag |-> "RAW", params |-> row, len |-> Len(row) * PixelBytes]}
  <2>1. got = row /\ enc.len = len * PixelBytes
    BY <1>3 DEF ReconstructRow
  <2>2. enc.len \in Nat
    BY <1>1, <2>1, LossyRowAssumption
  <2>3. \A i \in 1 .. len : Within(row[i], row[i], q)
    BY <1>1 DEF Within
  <2> QED BY <1>1, <2>1, <2>2, <2>3
<1>4. CASE ~ConstFits(row, q) /\ enc \notin {[tag |-> "RAW", params |-> row, len |-> Len(row) * PixelBytes]}
  <2>1. PICK tag \in Fits, h \in Predictions(row, q) :
          enc = [tag |-> tag, params |-> h, len |-> CoefBytes * Coefficients(tag)]
    BY <1>4 DEF FitRowLossy
  <2>2. tag # "CONST" /\ tag # "RAW"
    BY LossyRowAssumption
  <2>3. Coefficients(tag) \in Nat
    BY DEF Coefficients
  <2>4. enc.len \in Nat
    BY <2>1, <2>3, LossyRowAssumption
  <2>5. got = [i \in 1 .. len |-> Pixel(h[i])]
    BY <2>1, <2>2 DEF ReconstructRow
  <2>6. PICK e \in [DOMAIN row -> - (2 * q) .. 2 * q] : h = [i \in DOMAIN row |-> 2 * row[i] + e[i]]
    BY DEF Predictions
  <2>7. ASSUME NEW i \in 1 .. len PROVE got[i] \in 0 .. MaxPixel /\ Within(got[i], row[i], q)
    <3>1. e[i] \in - (2 * q) .. 2 * q /\ h[i] = 2 * row[i] + e[i] /\ row[i] \in 0 .. MaxPixel
      BY <1>1, <2>6
    <3>2. got[i] = Pixel(2 * row[i] + e[i])
      BY <2>5, <3>1
    <3> QED BY <3>1, <3>2, PixelWithin
  <2> HIDE DEF got
  <2>8. got \in [1 .. len -> 0 .. MaxPixel]
    BY <2>5, <2>7
  <2> QED BY <1>1, <2>4, <2>7, <2>8 DEF got
<1> QED BY <1>2, <1>3, <1>4


-----------------------------------------------------------------------------
(* Numbering the rows that stand alone *)

Rank(S, r) == Cardinality({s \in S : s <= r})

Nth(S, k) == CHOOSE r \in S : Rank(S, r) = k

\* The numbers 1, 2, ... up to how many there are go to all of them.
LEMMA Numbered ==
  ASSUME NEW m \in Nat, NEW S, S \subseteq 1 .. m
  PROVE  /\ Cardinality(S) \in Nat
         /\ \A k \in 1 .. Cardinality(S) : Nth(S, k) \in S
         /\ \A r \in S : \E k \in 1 .. Cardinality(S) : Nth(S, k) = r
<1> DEFINE c == Cardinality(S)
           upTo(r) == {s \in S : s <= r}
           rank == [r \in S |-> Rank(S, r)]
<1>1. IsFiniteSet(S) /\ c \in Nat
  <2>1. IsFiniteSet(1 .. m)
    BY FS_Interval
  <2>2. IsFiniteSet(S)
    BY <2>1, FS_Subset
  <2> QED BY <2>2, FS_CardinalityType
<1>2. ASSUME NEW r \in S PROVE Rank(S, r) \in 1 .. c /\ IsFiniteSet(upTo(r))
  <2>1. upTo(r) \in SUBSET S /\ r \in upTo(r)
    OBVIOUS
  <2> HIDE DEF upTo
  <2>2. IsFiniteSet(upTo(r)) /\ Cardinality(upTo(r)) <= c
    BY <1>1, <2>1, FS_Subset
  <2>3. Cardinality(upTo(r)) \in Nat /\ Cardinality(upTo(r)) # 0
    BY <2>1, <2>2, FS_CardinalityType, FS_EmptySet
  <2>4. Rank(S, r) = Cardinality(upTo(r))
    BY DEF Rank, upTo
  <2> QED BY <1>1, <2>2, <2>3, <2>4
<1>3. ASSUME NEW r \in S, NEW s \in S, r < s PROVE Rank(S, r) # Rank(S, s)
  <2>1. upTo(r) \in SUBSET upTo(s) /\ s \in upTo(s) /\ s \notin upTo(r)
    <3>1. r \in Nat /\ s \in Nat /\ \A x \in S : x \in Nat
      OBVIOUS
    <3>2. \A x \in S : x <= r => x <= s
      BY <1>3, <3>1
    <3>3. s <= s /\ ~(s <= r)
      BY <1>3, <3>1
    <3> QED BY <3>2, <3>3
  <2>2. IsFiniteSet(upTo(s))
    BY <1>2
  <2>3. Rank(S, r) = Cardinality(upTo(r)) /\ Rank(S, s) = Cardinality(upTo(s))
    BY DEF Rank
  <2> HIDE DEF upTo
  <2> QED BY <2>1, <2>2, <2>3, FS_Subset
<1>4. \A r, s \in S : Rank(S, r) = Rank(S, s) => r = s
  <2> TAKE r \in S, s \in S
  <2>1. r \in Nat /\ s \in Nat
    OBVIOUS
  <2> QED BY <1>3, <2>1
<1>5. rank \in Injection(S, 1 .. c)
  <2>1. rank \in [S -> 1 .. c] /\ \A r \in S : rank[r] = Rank(S, r)
    BY <1>2
  <2> HIDE DEF rank
  <2> QED BY <1>4, <2>1 DEF Injection, IsInjective
<1>6. rank \in Surjection(S, 1 .. c)
  <2>1. IsFiniteSet(1 .. c) /\ Cardinality(1 .. c) = c
    BY <1>1, FS_Interval
  <2> HIDE DEF rank
  <2> QED BY <1>1, <1>5, <2>1, FS_Injection
<1>7. \A k \in 1 .. c : \E r \in S : Rank(S, r) = k
  <2>1. \A r \in S : rank[r] = Rank(S, r)
    OBVIOUS
  <2> HIDE DEF rank
  <2> QED BY <1>6, <2>1 DEF Surjection
<1>8. \A k \in 1 .. c : Nth(S, k) \in S /\ Rank(S, Nth(S, k)) = k
  BY <1>7 DEF Nth
<1>9. ASSUME NEW r \in S PROVE Rank(S, r) \in 1 .. c /\ Nth(S, Rank(S, r)) = r
  <2>1. Rank(S, r) \in 1 .. c
    BY <1>2
  <2> QED BY <1>4, <1>8, <2>1
<1> QED BY <1>1, <1>8, <1>9


-----------------------------------------------------------------------------
(* The image: the inductive invariant *)

Encodings == UNION {FitRowLossy(image[r], quality) : r \in Rows}

\* Every row has an encoding it may get.
Fitting ==
  /\ image \in Images /\ quality \in Qualities
  /\ fitted \in Seq(Encodings) /\ Len(fitted) <= Len(image)
  /\ \A r \in DOMAIN fitted : fitted[r] \in FitRowLossy(image[r], quality)
  /\ stage # "Fit" => Len(fitted) = Len(image)
  /\ stage = "Fit" => groups = {} /\ entries = <<>>

IsGroup(e) == e.first = Base - 1 /\ e.rows \in Grouped

IsRow(e) == \E r \in Rows \ UNION Grouped : e.rows = {r} /\ e.first = (r - 1) % Base

EntryOK(e) ==
  /\ e.rows \subseteq Rows
  /\ \A r \in e.rows : e.enc = fitted[r]
  /\ IsGroup(e) \/ IsRow(e)

\* The entries stand for rows, and in the end for all of them.
Writing ==
  /\ entries \in Seq([first : Int, rows : SUBSET Rows, enc : Encodings])
  /\ \A k \in DOMAIN entries : EntryOK(entries[k])
  /\ groups \subseteq SUBSET Rows
  /\ stage = "Group" => Grouped = groups \union {entries[k].rows : k \in DOMAIN entries}
  /\ stage \in {"Decode", "Done", "Misread"} =>
       \A r \in Rows : \E k \in DOMAIN entries : r \in entries[k].rows

RowType(row, r) == row \in [DOMAIN image[r] -> 0 .. MaxPixel]

RowGood(row, r) == \A i \in DOMAIN image[r] : Within(row[i], image[r][i], quality)

\* The rows of the entries decoded so far are good.
Decoding ==
  /\ stage \in {"Fit", "Group", "Decode", "Done", "Misread"}
  /\ pos \in 0 .. Len(entries)
  /\ stage \in {"Fit", "Group"} => pos = 0 /\ pixels = None
  /\ stage \in {"Decode", "Done", "Misread"} =>
       DOMAIN pixels = Rows /\ \A r \in Rows : RowType(pixels[r], r)
  /\ stage \in {"Decode", "Done"} =>
       \A k \in 1 .. pos : /\ ~Misleading(entries[k])
                           /\ \A r \in entries[k].rows : RowGood(pixels[r], r)
  /\ stage = "Done" => pos = Len(entries)
  /\ stage = "Misread" => pos # 0 /\ Misleading(entries[pos])

ImageInv == Fitting /\ Writing /\ Decoding

\* What the assumption says of an image.
LEMMA ImageIs ==
  ASSUME Fitting
  PROVE  /\ image \in Seq(Seq(0 .. MaxPixel)) /\ Len(image) \in Nat /\ Rows = 1 .. Len(image)
         /\ \A r \in Rows : image[r] \in Seq(0 .. MaxPixel) /\ Len(image[r]) \in Nat \ {0}
         /\ quality \in Nat
         /\ Len(fitted) \in Nat /\ DOMAIN fitted = 1 .. Len(fitted)
<1>1. image \in Seq(Seq(0 .. MaxPixel)) /\ \A r \in DOMAIN image : Len(image[r]) \in Nat \ {0}
  BY ImageAssumption DEF Fitting
<1>2. quality \in Nat
  BY LossyRowAssumption DEF Fitting
<1> QED BY <1>1, <1>2 DEF Fitting, Rows

\* An encoding of a row decodes to a good row.
LEMMA DecodedRow ==
  ASSUME Fitting, NEW r \in Rows, r \in DOMAIN fitted
  PROVE  LET row == ReconstructRow(fitted[r], Len(image[r]))
         IN  RowType(row, r) /\ RowGood(row, r) /\ fitted[r].len \in Nat
<1>1. /\ image[r] \in Seq(0 .. MaxPixel) /\ quality \in Nat
      /\ fitted[r] \in FitRowLossy(image[r], quality)
  BY ImageIs DEF Fitting
<1> QED BY <1>1, FitWithin DEF RowType, RowGood

\* Before the first row is fitted.
LEMMA ImageStarts == Init => ImageInv
<1> SUFFICES ASSUME Init PROVE ImageInv
  OBVIOUS
<1> USE DEF Init
<1>1. Fitting
  <2>1. fitted = <<>> /\ Len(fitted) = 0 /\ Len(image) \in Nat
    BY ImageAssumption
  <2> QED BY <2>1 DEF Fitting
<1>2. Writing
  BY DEF Writing
<1>3. Decoding
  BY DEF Decoding
<1> QED BY <1>1, <1>2, <1>3 DEF ImageInv


\* The loop over the rows.
LEMMA FitRowKeeps == ImageInv /\ FitRow => ImageInv'
<1> SUFFICES ASSUME ImageInv, FitRow PROVE ImageInv'
  OBVIOUS
<1> USE DEF FitRow
<1>1. Fitting /\ Writing /\ Decoding
  BY DEF ImageInv
<1> DEFINE r == Len(fitted) + 1
<1>2. /\ Len(fitted) \in Nat /\ DOMAIN fitted = 1 .. Len(fitted) /\ Len(image) \in Nat
      /\ Rows = 1 .. Len(image) /\ r \in Rows /\ r \notin DOMAIN fitted
  BY <1>1, ImageIs
<1>3. PICK enc : /\ fitted' = Append(fitted, enc)
                 /\ \/ enc \in FitRowLossy(image[r], quality)
                    \/ \E s \in DOMAIN fitted : image[s] = image[r] /\ enc = fitted[s]
  OBVIOUS
<1>4. enc \in FitRowLossy(image[r], quality)
  BY <1>1, <1>3 DEF Fitting
<1>5. enc \in Encodings
  BY <1>2, <1>4 DEF Encodings
<1>6. /\ fitted' \in Seq(Encodings) /\ Len(fitted') = r
      /\ \A s \in 1 .. Len(fitted) : fitted'[s] = fitted[s]
      /\ fitted'[r] = enc /\ DOMAIN fitted' = 1 .. r
  BY <1>1, <1>3, <1>5 DEF Fitting
<1>7. Encodings' = Encodings /\ Rows' = Rows
  BY DEF Encodings, Rows
<1>8. Fitting'
  <2>1. \A s \in DOMAIN fitted' : fitted'[s] \in FitRowLossy(image[s], quality)
    <3> TAKE s \in DOMAIN fitted'
    <3>1. s \in 1 .. Len(fitted) \/ s = r
      BY <1>2, <1>6
    <3> QED BY <1>1, <1>2, <1>4, <1>6, <3>1 DEF Fitting
  <2>2. Len(fitted') <= Len(image)
    BY <1>2, <1>6
  <2> HIDE DEF r
  <2> QED BY <1>1, <1>6, <1>7, <2>1, <2>2 DEF Fitting
<1>9. Writing'
  BY <1>1, <1>7 DEF Fitting, Writing
<1>10. Decoding'
  BY <1>1 DEF Decoding
<1> QED BY <1>8, <1>9, <1>10 DEF ImageInv

\* What stays while the file is written and read.
LEMMA FittingStays ==
  ASSUME Fitting, UNCHANGED <<image, quality, fitted>>, stage # "Fit"
  PROVE  /\ Encodings' = Encodings /\ Rows' = Rows /\ Grouped' = Grouped
         /\ stage' # "Fit" => Fitting'
         /\ \A e : EntryOK(e)' <=> EntryOK(e)
         /\ \A e : Misleading(e)' <=> Misleading(e)
         /\ \A row, r : (RowType(row, r)' <=> RowType(row, r)) /\ (RowGood(row, r)' <=> RowGood(row, r))
<1>1. Encodings' = Encodings /\ Rows' = Rows
  BY DEF Encodings, Rows
<1>2. Grouped' = Grouped
  BY <1>1 DEF Grouped
<1> QED BY <1>1, <1>2 DEF Fitting, EntryOK, IsGroup, IsRow, Misleading, RowType, RowGood

\* cross_row_optimize
LEMMA CrossRowOptimizeKeeps == ImageInv /\ CrossRowOptimize => ImageInv'
<1> SUFFICES ASSUME ImageInv, CrossRowOptimize PROVE ImageInv'
  OBVIOUS
<1> USE DEF CrossRowOptimize
<1>1. Fitting /\ Writing /\ Decoding
  BY DEF ImageInv
<1>2. Encodings' = Encodings /\ Rows' = Rows
  BY DEF Encodings, Rows
<1>3. Grouped' = Grouped /\ Grouped \subseteq SUBSET Rows
  BY <1>2 DEF Grouped
<1>4. Fitting'
  BY <1>1, <1>2 DEF Fitting
<1>5. Writing'
  <2>1. entries = <<>> /\ entries' = <<>>
    BY <1>1 DEF Fitting
  <2> QED BY <1>1, <1>2, <1>3, <2>1 DEF Writing
<1>6. Decoding'
  BY <1>1 DEF Decoding
<1> QED BY <1>4, <1>5, <1>6 DEF ImageInv


\* The rows of a group have the encoding that is written for them.
LEMMA GroupIs ==
  ASSUME NEW g \in Grouped
  PROVE  /\ g \subseteq Rows /\ g # {} /\ Cardinality(g) >= MinGroup
         /\ \A r \in g : fitted[CHOOSE s \in g : TRUE] = fitted[r]
<1>1. PICK s \in Rows : g = {r \in Rows : fitted[r] = fitted[s]}
  BY DEF Grouped
<1>2. s \in g /\ (CHOOSE x \in g : TRUE) \in g
  BY <1>1
<1> QED BY <1>1, <1>2 DEF Grouped

\* serialize_entries, a group
LEMMA WriteGroupKeeps == ImageInv /\ WriteGroup => ImageInv'
<1> SUFFICES ASSUME ImageInv, WriteGroup PROVE ImageInv'
  OBVIOUS
<1>1. Fitting /\ Writing /\ Decoding
  BY DEF ImageInv
<1>2. PICK g \in groups :
        /\ entries' = Append(entries, [first |-> Base - 1, rows |-> g,
                                       enc |-> fitted[CHOOSE r \in g : TRUE]])
        /\ groups' = groups \ {g}
  BY DEF WriteGroup
<1>3. stage = "Group" /\ UNCHANGED <<image, quality, stage, fitted, pos, pixels>>
  BY DEF WriteGroup
<1> DEFINE e == [first |-> Base - 1, rows |-> g, enc |-> fitted[CHOOSE r \in g : TRUE]]
<1>4. g \in Grouped /\ groups \subseteq SUBSET Rows
  BY <1>1, <1>3 DEF Writing
<1>5. EntryOK(e)
  BY <1>4, GroupIs DEF EntryOK, IsGroup
<1>6. e \in [first : Int, rows : SUBSET Rows, enc : Encodings]
  <2>1. PICK s \in g : s = (CHOOSE r \in g : TRUE)
    BY <1>4, GroupIs
  <2>2. s \in DOMAIN fitted /\ s \in Rows
    BY <1>1, <1>3, <1>4, ImageIs DEF Fitting
  <2>3. fitted[s] \in Encodings
    BY <1>1, <2>2 DEF Fitting, Encodings
  <2>4. Base - 1 \in Int
    BY ImageAssumption
  <2> QED BY <1>4, <2>1, <2>3, <2>4
<1> HIDE DEF e
<1>7. /\ entries \in Seq([first : Int, rows : SUBSET Rows, enc : Encodings])
      /\ entries' = Append(entries, e) /\ Len(entries) \in Nat
  BY <1>1, <1>2 DEF Writing, e
<1>8. /\ entries' \in Seq([first : Int, rows : SUBSET Rows, enc : Encodings])
      /\ Len(entries') = Len(entries) + 1
      /\ DOMAIN entries = 1 .. Len(entries) /\ DOMAIN entries' = 1 .. Len(entries) + 1
      /\ \A k \in 1 .. Len(entries) : entries'[k] = entries[k]
      /\ entries'[Len(entries) + 1] = e
  BY <1>6, <1>7
<1>9. /\ Encodings' = Encodings /\ Rows' = Rows /\ Grouped' = Grouped /\ Fitting'
      /\ \A x : EntryOK(x)' <=> EntryOK(x)
  BY <1>1, <1>3, FittingStays
<1>10. \A k \in DOMAIN entries' : EntryOK(entries'[k])
  <2> TAKE k \in DOMAIN entries'
  <2>1. k \in 1 .. Len(entries) \/ k = Len(entries) + 1
    BY <1>7, <1>8
  <2> QED BY <1>1, <1>5, <1>8, <2>1 DEF Writing
<1>11. Grouped = groups' \union {entries'[k].rows : k \in DOMAIN entries'}
  <2>1. \A k \in DOMAIN entries' : k \in 1 .. Len(entries) \/ k = Len(entries) + 1
    BY <1>7, <1>8
  <2>2. Len(entries) + 1 \in DOMAIN entries' /\ \A k \in DOMAIN entries : k \in DOMAIN entries'
    BY <1>7, <1>8
  <2>3. {entries'[k].rows : k \in DOMAIN entries'} = {entries[k].rows : k \in DOMAIN entries} \union {g}
    <3>1. e.rows = g
      BY DEF e
    <3> QED BY <1>8, <2>1, <2>2, <3>1
  <2>4. Grouped = groups \union {entries[k].rows : k \in DOMAIN entries}
    BY <1>1, <1>3 DEF Writing
  <2> QED BY <1>2, <2>3, <2>4
<1>12. Writing'
  <2>1. \A k \in DOMAIN entries' : EntryOK(entries[k])'
    BY <1>9, <1>10
  <2>2. groups' \subseteq SUBSET Rows
    BY <1>2, <1>4
  <2> QED BY <1>3, <1>8, <1>9, <1>11, <2>1, <2>2 DEF Writing
<1>13. Decoding'
  <2>1. pos = 0 /\ pixels = None /\ 0 \in 0 .. Len(entries')
    BY <1>1, <1>3, <1>7, <1>8 DEF Decoding
  <2> QED BY <1>3, <2>1 DEF Decoding
<1> QED BY <1>9, <1>12, <1>13 DEF ImageInv

\* serialize_entries, the other rows
LEMMA WriteRowsKeeps == ImageInv /\ WriteRows => ImageInv'
<1> SUFFICES ASSUME ImageInv, WriteRows PROVE ImageInv'
  OBVIOUS
<1>1. Fitting /\ Writing /\ Decoding
  BY DEF ImageInv
<1> DEFINE rest == Rows \ UNION Grouped
           c == Cardinality(rest)
           Alone(k) == [first |-> (Nth(rest, k) - 1) % Base, rows |-> {Nth(rest, k)},
                        enc |-> fitted[Nth(rest, k)]]
           alone == [k \in 1 .. c |-> Alone(k)]
           Entries == [first : Int, rows : SUBSET Rows, enc : Encodings]
           len == Len(entries)
<1>2. /\ stage = "Group" /\ groups = {} /\ stage' = "Decode"
      /\ entries' = entries \o alone
      /\ pixels' = [r \in Rows |-> [i \in DOMAIN image[r] |-> 0]]
      /\ UNCHANGED <<image, quality, fitted, groups, pos>>
  BY DEF WriteRows, Nth, Rank
<1>3. /\ Len(image) \in Nat /\ Rows = 1 .. Len(image) /\ DOMAIN fitted = Rows
      /\ Base \in Nat \ {0}
  BY <1>1, <1>2, ImageIs, ImageAssumption DEF Fitting
<1>4. /\ c \in Nat
      /\ \A k \in 1 .. c : Nth(rest, k) \in rest
      /\ \A r \in rest : \E k \in 1 .. c : Nth(rest, k) = r
  <2>1. rest \subseteq 1 .. Len(image)
    BY <1>3
  <2> HIDE DEF rest
  <2> QED BY <1>3, <2>1, Numbered
<1>5. ASSUME NEW k \in 1 .. c PROVE Alone(k) \in Entries /\ EntryOK(Alone(k))
  <2>1. PICK r \in rest : r = Nth(rest, k)
    BY <1>4
  <2> DEFINE a == [first |-> (r - 1) % Base, rows |-> {r}, enc |-> fitted[r]]
  <2>2. r \in Rows /\ r \in Nat /\ (r - 1) % Base \in Int /\ r \notin UNION Grouped
    BY <1>3
  <2>3. fitted[r] \in Encodings
    BY <1>1, <1>3, <2>2 DEF Fitting, Encodings
  <2>4. a \in Entries /\ EntryOK(a)
    BY <2>2, <2>3 DEF EntryOK, IsRow
  <2> QED BY <2>1, <2>4
<1> HIDE DEF rest, c, Alone
<1>6. alone \in Seq(Entries) /\ Len(alone) = c /\ \A k \in 1 .. c : alone[k] = Alone(k)
  BY <1>4, <1>5
<1>7. entries \in Seq(Entries) /\ len \in Nat /\ DOMAIN entries = 1 .. len
  BY <1>1 DEF Writing
<1> HIDE DEF Entries, alone
<1>8. /\ entries' \in Seq(Entries) /\ Len(entries') = len + c /\ DOMAIN entries' = 1 .. len + c
      /\ \A k \in 1 .. len : entries'[k] = entries[k]
      /\ \A k \in 1 .. c : entries'[len + k] = Alone(k)
  <2>1. /\ entries' \in Seq(Entries) /\ Len(entries') = len + c
        /\ \A i \in 1 .. len + c : entries'[i] = IF i <= len THEN entries[i] ELSE alone[i - len]
    <3> HIDE DEF len
    <3>1. \A s \in Seq(Entries), t \in Seq(Entries) :
            /\ s \o t \in Seq(Entries) /\ Len(s \o t) = Len(s) + Len(t)
            /\ \A i \in 1 .. Len(s) + Len(t) :
                 (s \o t)[i] = IF i <= Len(s) THEN s[i] ELSE t[i - Len(s)]
      BY ConcatProperties
    <3> QED BY <1>2, <1>6, <1>7, <3>1 DEF len
  <2> HIDE DEF len
  <2>2. DOMAIN entries' = 1 .. len + c
    BY <2>1
  <2>3. \A k \in 1 .. len : k \in 1 .. len + c /\ k <= len
    BY <1>4, <1>7
  <2>4. \A k \in 1 .. c : len + k \in 1 .. len + c /\ ~(len + k <= len) /\ (len + k) - len = k
    BY <1>4, <1>7
  <2> QED BY <1>6, <2>1, <2>2, <2>3, <2>4
<1>9. /\ Encodings' = Encodings /\ Rows' = Rows /\ Grouped' = Grouped /\ Fitting'
      /\ \A x : EntryOK(x)' <=> EntryOK(x)
      /\ \A row, r : RowType(row, r)' <=> RowType(row, r)
  BY <1>1, <1>2, FittingStays
<1> HIDE DEF len
<1>10. \A k \in DOMAIN entries' : k \in 1 .. len \/ \E j \in 1 .. c : k = len + j
  <2> TAKE k \in DOMAIN entries'
  <2>1. CASE k <= len
    BY <1>7, <1>8, <2>1
  <2>2. CASE ~(k <= len)
    <3>1. k - len \in 1 .. c /\ k = len + (k - len)
      BY <1>4, <1>7, <1>8, <2>2
    <3> QED BY <3>1
  <2> QED BY <2>1, <2>2
<1>11. \A k \in DOMAIN entries' : EntryOK(entries[k])'
  BY <1>1, <1>5, <1>7, <1>8, <1>9, <1>10 DEF Writing
<1>12. \A r \in Rows : \E k \in DOMAIN entries' : r \in entries'[k].rows
  <2> TAKE r \in Rows
  <2>1. CASE r \in UNION Grouped
    <3>1. PICK g \in Grouped : r \in g
      BY <2>1
    <3>2. PICK k \in DOMAIN entries : entries[k].rows = g
      BY <1>1, <1>2, <3>1 DEF Writing
    <3>3. k \in DOMAIN entries' /\ entries'[k] = entries[k]
      BY <1>4, <1>7, <1>8
    <3> QED BY <3>1, <3>2, <3>3
  <2>2. CASE r \notin UNION Grouped
    <3>1. PICK k \in 1 .. c : Nth(rest, k) = r
      BY <1>4, <2>2 DEF rest
    <3>2. len + k \in DOMAIN entries' /\ r \in Alone(k).rows
      BY <1>4, <1>7, <1>8, <3>1 DEF Alone
    <3> QED BY <1>8, <3>2
  <2> QED BY <2>1, <2>2
<1>13. Writing'
  <2>1. groups' \subseteq SUBSET Rows
    BY <1>1, <1>2 DEF Writing
  <2> QED BY <1>2, <1>8, <1>9, <1>11, <1>12, <2>1 DEF Writing, Entries
<1>14. Decoding'
  <2>1. pos = 0 /\ 0 \in 0 .. Len(entries')
    BY <1>1, <1>2, <1>4, <1>7, <1>8 DEF Decoding
  <2>2. DOMAIN pixels' = Rows /\ \A r \in Rows : RowType(pixels'[r], r)
    BY <1>2, LossyRowAssumption DEF RowType
  <2>3. 1 .. pos' = {}
    BY <1>2, <2>1
  <2> QED BY <1>2, <1>9, <2>1, <2>2, <2>3 DEF Decoding
<1> QED BY <1>9, <1>13, <1>14 DEF ImageInv


\* decompress_image, one entry
LEMMA DecodeEntryKeeps == ImageInv /\ DecodeEntry => ImageInv'
<1> SUFFICES ASSUME ImageInv, DecodeEntry PROVE ImageInv'
  OBVIOUS
<1>1. Fitting /\ Writing /\ Decoding
  BY DEF ImageInv
<1> DEFINE k == pos + 1
           e == entries[k]
<1>2. /\ stage = "Decode" /\ pos < Len(entries) /\ pos' = k
      /\ UNCHANGED <<image, quality, fitted, groups, entries>>
  BY DEF DecodeEntry
<1>3. /\ Encodings' = Encodings /\ Rows' = Rows /\ Grouped' = Grouped
      /\ stage' # "Fit" => Fitting'
      /\ \A x : EntryOK(x)' <=> EntryOK(x)
      /\ \A x : Misleading(x)' <=> Misleading(x)
      /\ \A row, r : (RowType(row, r)' <=> RowType(row, r)) /\ (RowGood(row, r)' <=> RowGood(row, r))
  BY <1>1, <1>2, FittingStays
<1>4. /\ Len(entries) \in Nat /\ DOMAIN entries = 1 .. Len(entries)
      /\ pos \in Nat /\ k \in DOMAIN entries /\ k # 0 /\ k \in 0 .. Len(entries)
      /\ \A j \in 1 .. k : j \in 1 .. pos \/ j = k
  BY <1>1, <1>2 DEF Writing, Decoding
<1>5. DOMAIN fitted = Rows
  BY <1>1, <1>2, ImageIs DEF Fitting
<1>6. e.rows \subseteq Rows /\ \A r \in e.rows : e.enc = fitted[r]
  BY <1>1, <1>4 DEF Writing, EntryOK
<1>7. stage' \in {"Decode", "Misread"}
  BY <1>2 DEF DecodeEntry
<1>8. Writing'
  BY <1>1, <1>2, <1>3, <1>7 DEF Writing
<1>9. Fitting'
  BY <1>3, <1>7
<1>10. /\ DOMAIN pixels = Rows /\ \A r \in Rows : RowType(pixels[r], r)
       /\ \A j \in 1 .. pos : /\ ~Misleading(entries[j])
                              /\ \A r \in entries[j].rows : RowGood(pixels[r], r)
  BY <1>1, <1>2 DEF Decoding
<1> HIDE DEF k
<1>11. CASE Misleading(e)
  <2>1. pixels' = pixels /\ stage' = "Misread"
    BY <1>11 DEF DecodeEntry, k
  <2>2. \A r \in Rows : RowType(pixels[r], r)'
    BY <1>3, <1>10, <2>1
  <2>3. Misleading(entries[pos])'
    BY <1>2, <1>3, <1>11
  <2>4. Decoding'
    BY <1>2, <1>3, <1>4, <1>10, <2>1, <2>2, <2>3 DEF Decoding
  <2> QED BY <1>8, <1>9, <2>4 DEF ImageInv
<1>12. CASE ~Misleading(e)
  <2>1. /\ pixels' = [r \in Rows |-> IF r \in e.rows THEN ReconstructRow(e.enc, Len(image[r]))
                                     ELSE pixels[r]]
        /\ stage' = "Decode"
    BY <1>2, <1>12 DEF DecodeEntry, k
  <2>2. ASSUME NEW r \in e.rows PROVE RowType(pixels'[r], r) /\ RowGood(pixels'[r], r)
    <3>1. pixels'[r] = ReconstructRow(fitted[r], Len(image[r]))
      BY <1>6, <2>1
    <3> QED BY <1>1, <1>5, <1>6, <3>1, DecodedRow
  <2>3. \A r \in Rows : r \notin e.rows => pixels'[r] = pixels[r]
    BY <2>1
  <2>4. \A r \in Rows : RowType(pixels'[r], r)
    BY <1>10, <2>2, <2>3
  <2>5. \A j \in 1 .. k : /\ ~Misleading(entries[j])
                          /\ \A r \in entries[j].rows : RowGood(pixels'[r], r)
    <3> TAKE j \in 1 .. k
    <3>1. CASE j = k
      BY <1>12, <2>2, <3>1
    <3>2. CASE j \in 1 .. pos
      <4>1. j \in DOMAIN entries
        BY <1>2, <1>4, <3>2
      <4>2. entries[j].rows \subseteq Rows
        BY <1>1, <4>1 DEF Writing, EntryOK
      <4> QED BY <1>10, <2>2, <2>3, <3>2, <4>2
    <3> QED BY <1>4, <3>1, <3>2
  <2>6. /\ \A r \in Rows : RowType(pixels[r], r)'
        /\ \A j \in 1 .. k : /\ ~Misleading(entries[j])'
                             /\ \A r \in entries[j].rows : RowGood(pixels[r], r)'
    BY <1>2, <1>3, <2>4, <2>5
  <2>7. DOMAIN pixels' = Rows
    BY <2>1
  <2>8. Decoding'
    BY <1>2, <1>3, <1>4, <2>1, <2>6, <2>7 DEF Decoding
  <2> QED BY <1>8, <1>9, <2>8 DEF ImageInv
<1> QED BY <1>11, <1>12

\* After the last entry.
LEMMA FinishKeeps == ImageInv /\ Finish => ImageInv'
<1> SUFFICES ASSUME ImageInv, Finish PROVE ImageInv'
  OBVIOUS
<1>1. Fitting /\ Writing /\ Decoding
  BY DEF ImageInv
<1>2. /\ stage = "Decode" /\ pos = Len(entries) /\ stage' = "Done"
      /\ UNCHANGED <<image, quality, fitted, groups, entries, pos, pixels>>
  BY DEF Finish
<1>3. /\ Encodings' = Encodings /\ Rows' = Rows /\ Grouped' = Grouped /\ Fitting'
      /\ \A x : EntryOK(x)' <=> EntryOK(x)
      /\ \A x : Misleading(x)' <=> Misleading(x)
      /\ \A row, r : (RowType(row, r)' <=> RowType(row, r)) /\ (RowGood(row, r)' <=> RowGood(row, r))
  BY <1>1, <1>2, FittingStays
<1>4. Writing'
  BY <1>1, <1>2, <1>3 DEF Writing
<1>5. Decoding'
  BY <1>1, <1>2, <1>3 DEF Decoding
<1> QED BY <1>3, <1>4, <1>5 DEF ImageInv

\* Every step of the image codec keeps it.
LEMMA ImageNext == ImageInv /\ [Next]_vars => ImageInv'
<1>1. ASSUME ImageInv, UNCHANGED vars PROVE ImageInv'
  <2>1. Encodings' = Encodings /\ Rows' = Rows
    BY <1>1 DEF vars, Encodings, Rows
  <2>2. Grouped' = Grouped
    BY <1>1, <2>1 DEF vars, Grouped
  <2>3. Fitting'
    BY <1>1, <2>1 DEF vars, ImageInv, Fitting
  <2>4. Writing'
    BY <1>1, <2>1, <2>2 DEF vars, ImageInv, Writing, EntryOK, IsGroup, IsRow
  <2>5. Decoding'
    BY <1>1, <2>1 DEF vars, ImageInv, Decoding, Misleading, RowType, RowGood
  <2> QED BY <2>3, <2>4, <2>5 DEF ImageInv
<1> QED BY <1>1, FitRowKeeps, CrossRowOptimizeKeeps, WriteGroupKeeps, WriteRowsKeeps,
           DecodeEntryKeeps, FinishKeeps DEF Next

\* What the invariant says of the answer.
LEMMA ImageSays == ImageInv => ImageTypeOK /\ PixelsWithinQuality /\ MisreadOnlyThere
<1> SUFFICES ASSUME ImageInv PROVE ImageTypeOK /\ PixelsWithinQuality /\ MisreadOnlyThere
  OBVIOUS
<1>1. Fitting /\ Writing /\ Decoding
  BY DEF ImageInv
<1>2. /\ Len(entries) \in Nat /\ DOMAIN entries = 1 .. Len(entries)
      /\ \A k \in DOMAIN entries : EntryOK(entries[k])
  BY <1>1 DEF Writing
<1>3. ImageTypeOK
  BY <1>1 DEF ImageTypeOK, Fitting, Writing, Decoding, RowType
<1>4. ASSUME stage = "Done", NEW r \in Rows
      PROVE  \E k \in DOMAIN entries :
               r \in entries[k].rows /\ ~Misleading(entries[k]) /\ RowGood(pixels[r], r)
  <2>1. PICK k \in DOMAIN entries : r \in entries[k].rows
    BY <1>1, <1>4 DEF Writing
  <2> QED BY <1>1, <1>2, <1>4, <2>1 DEF Decoding
<1>5. PixelsWithinQuality
  <2> SUFFICES ASSUME stage = "Done", NEW r \in Rows, NEW i \in DOMAIN image[r]
               PROVE  Distance(pixels[r][i], image[r][i]) <= quality
    BY DEF PixelsWithinQuality
  <2>1. Within(pixels[r][i], image[r][i], quality)
    BY <1>4 DEF RowGood
  <2>2. image[r] \in Seq(0 .. MaxPixel) /\ quality \in Nat /\ MaxPixel \in Nat
    BY <1>1, ImageIs, LossyRowAssumption
  <2>3. pixels[r] \in [DOMAIN image[r] -> 0 .. MaxPixel]
    BY <1>1 DEF Decoding, RowType
  <2>4. pixels[r][i] \in Int /\ image[r][i] \in Int
    BY <2>2, <2>3
  <2> QED BY <2>1, <2>2, <2>4, WithinIs
<1>6. ASSUME stage = "Misread" PROVE Unreadable # {}
  <2>1. pos \in DOMAIN entries /\ Misleading(entries[pos])
    BY <1>1, <1>2, <1>6 DEF Decoding
  <2> DEFINE e == entries[pos]
  <2>2. EntryOK(e)
    BY <1>2, <2>1
  <2>3. CASE IsGroup(e)
    <3>1. e.rows # {} /\ Cardinality(e.rows) >= MinGroup /\ e.rows \subseteq Rows
      BY <2>3, GroupIs DEF IsGroup
    <3>2. e.enc.len >= U16
      BY <2>1, <3>1 DEF Misleading, MinGroup
    <3>3. PICK r \in e.rows : r \in Rows /\ fitted[r].len >= U16
      BY <2>2, <3>1, <3>2 DEF EntryOK
    <3> QED BY <3>3 DEF Unreadable
  <2>4. CASE IsRow(e)
    <3>1. PICK r \in Rows \ UNION Grouped : e.rows = {r} /\ e.first = (r - 1) % Base
      BY <2>4 DEF IsRow
    <3>2. e.enc = fitted[r]
      BY <2>2, <3>1 DEF EntryOK
    <3>3. r \in Unreadable
      BY <2>1, <3>1, <3>2 DEF Misleading, Unreadable
    <3> QED BY <3>3
  <2> QED BY <2>2, <2>3, <2>4 DEF EntryOK
<1>7. ASSUME stage = "Done", NEW r \in Rows PROVE r \notin Unreadable
  <2>1. PICK k \in DOMAIN entries : r \in entries[k].rows /\ ~Misleading(entries[k])
    BY <1>4, <1>7
  <2> DEFINE e == entries[k]
  <2>2. EntryOK(e) /\ e.enc = fitted[r]
    BY <1>2, <2>1 DEF EntryOK
  <2>3. ~(fitted[r].len >= U16)
    BY <2>1, <2>2 DEF Misleading
  <2>4. ASSUME (r - 1) % Base = Base - 1, r \notin UNION Grouped PROVE FALSE
    <3>1. IsRow(e)
      BY <2>1, <2>2, <2>4 DEF EntryOK, IsGroup
    <3>2. e.rows = {r} /\ e.first = (r - 1) % Base
      BY <2>1, <3>1 DEF IsRow
    <3>3. Cardinality(e.rows) = 1
      BY <3>2, FS_Singleton
    <3> QED BY <2>1, <2>4, <3>2, <3>3 DEF Misleading
  <2> QED BY <2>3, <2>4 DEF Unreadable
<1>8. MisreadOnlyThere
  BY <1>6, <1>7 DEF MisreadOnlyThere, Unreadable
<1> QED BY <1>3, <1>5, <1>8


-----------------------------------------------------------------------------
(* The recording *)

\* A frame holds samples, as many as a frame has at most.
LEMMA FrameIs ==
  ASSUME recording \in Recordings, NEW k \in 1 .. NumFrames
  PROVE  /\ Frame(k) \in Seq(0 .. MaxPixel)
         /\ Len(Frame(k)) \in Nat /\ Len(Frame(k)) <= recording.frame
         /\ DOMAIN Frame(k) = 1 .. Len(Frame(k))
<1> DEFINE s == recording.samples
           n == recording.frame
           end == k * n
           m == end - n + 1
           to == IF end < Len(s) THEN end ELSE Len(s)
<1>1. s \in Seq(0 .. MaxPixel) /\ n \in Nat \ {0} /\ Len(s) \in Nat
  BY AudioAssumption
<1>2. k \in Nat \ {0}
  <2>1. NumFrames \in Int
    BY <1>1 DEF NumFrames
  <2> QED BY <2>1
<1>3. end \in Nat /\ end >= n
  <2>1. PICK j \in Nat : k = j + 1
    BY <1>2
  <2> HIDE DEF n
  <2>2. (j + 1) * n = j * n + n /\ j * n \in Nat
    BY <1>1, <2>1
  <2>3. end = j * n + n
    BY <2>1, <2>2
  <2> HIDE DEF end
  <2> QED BY <1>1, <2>2, <2>3
<1>4. Frame(k) = SubSeq(s, m, to)
  BY DEF Frame
<1> HIDE DEF end
<1>5. m \in Int /\ m >= 1 /\ to \in Int /\ to <= Len(s) /\ to - m + 1 <= n
  BY <1>1, <1>3
<1> HIDE DEF s, m, to
<1>6. \A i \in m .. to : s[i] \in 0 .. MaxPixel
  <2>1. \A i \in m .. to : i \in 1 .. Len(s)
    BY <1>1, <1>5
  <2> QED BY <1>1, <2>1, ElementOfSeq
<1> DEFINE f == SubSeq(s, m, to)
<1>7. f \in Seq(0 .. MaxPixel) /\ Len(f) = IF m <= to THEN to - m + 1 ELSE 0
  BY <1>5, <1>6, SubSeqProperties
<1>8. Len(f) \in Nat /\ Len(f) <= n /\ DOMAIN f = 1 .. Len(f)
  BY <1>1, <1>5, <1>7
<1> QED BY <1>4, <1>7, <1>8

\* The samples of a frame that the image codec looks at.
Seen(k) == SubSeq(Frame(k), 1, Len(Frame(k)) % U16)

\* What the file may hold of a frame.
FrameFile(k) ==
  {[len |-> (Overhead + enc.len) % U16, enc |-> enc,
    width |-> Len(Seen(k)), original |-> Len(Frame(k))] : enc \in FitRowLossy(Seen(k), loss)}

\* They are the first of the frame.
LEMMA SeenIs ==
  ASSUME recording \in Recordings, NEW k \in 1 .. NumFrames
  PROVE  /\ Seen(k) \in Seq(0 .. MaxPixel)
         /\ Len(Seen(k)) = Len(Frame(k)) % U16 /\ Len(Seen(k)) \in Nat
         /\ Len(Seen(k)) <= Len(Frame(k)) /\ DOMAIN Seen(k) = 1 .. Len(Seen(k))
         /\ \A i \in 1 .. Len(Seen(k)) : Seen(k)[i] = Frame(k)[i]
<1> DEFINE f == Frame(k)
           w == Len(f) % U16
<1>1. f \in Seq(0 .. MaxPixel) /\ Len(f) \in Nat
  BY FrameIs
<1>2. w \in Nat /\ w <= Len(f)
  <2>1. U16 \in Nat \ {0}
    BY LossyRowAssumption
  <2>2. PICK l \in Nat : l = Len(f)
    BY <1>1
  <2>3. l % U16 \in Nat /\ l % U16 <= l
    BY <2>1
  <2> QED BY <2>2, <2>3
<1>3. Seen(k) = SubSeq(f, 1, w)
  BY DEF Seen
<1> HIDE DEF f, w
<1> DEFINE s == SubSeq(f, 1, w)
<1>4. \A i \in 1 .. w : f[i] \in 0 .. MaxPixel
  <2>1. \A i \in 1 .. w : i \in 1 .. Len(f)
    BY <1>1, <1>2
  <2> QED BY <1>1, <2>1, ElementOfSeq
<1>5. /\ s \in Seq(0 .. MaxPixel) /\ Len(s) = IF 1 <= w THEN w - 1 + 1 ELSE 0
      /\ \A i \in 1 .. w - 1 + 1 : s[i] = f[1 + i - 1]
  BY <1>2, <1>4, SubSeqProperties
<1>6. Len(s) = w /\ w - 1 + 1 = w
  BY <1>2, <1>5
<1>7. \A i \in 1 .. w : s[i] = f[i]
  <2> TAKE i \in 1 .. w
  <2>1. i \in 1 .. w - 1 + 1 /\ 1 + i - 1 = i
    BY <1>2
  <2> QED BY <1>5, <2>1
<1>8. DOMAIN s = 1 .. w
  BY <1>5, <1>6
<1> QED BY <1>2, <1>3, <1>5, <1>6, <1>7, <1>8 DEF f, w

\* What is read back of a frame: samples, those that were seen within the quality.
LEMMA FrameDecoded ==
  ASSUME recording \in Recordings, loss \in Qualities,
         NEW k \in 1 .. NumFrames, NEW f \in FrameFile(k)
  PROVE  /\ f.enc.len \in Nat /\ f.len = (Overhead + f.enc.len) % U16
         /\ Decompressed(f) \in [DOMAIN Frame(k) -> 0 .. MaxPixel]
         /\ Len(Decompressed(f)) = Len(Frame(k))
         /\ Decompressed(f) \in Seq(0 .. MaxPixel)
         /\ \A i \in 1 .. Len(Frame(k)) % U16 : Within(Decompressed(f)[i], Frame(k)[i], loss)
         /\ \A i \in DOMAIN Frame(k) : ~(i <= Len(Frame(k)) % U16) => Decompressed(f)[i] = 0
<1> DEFINE l == Len(Frame(k))
           w == Len(Seen(k))
           row == ReconstructRow(f.enc, w)
<1>1. /\ Seen(k) \in Seq(0 .. MaxPixel) /\ w \in Nat /\ w <= l /\ DOMAIN Seen(k) = 1 .. w
      /\ \A i \in 1 .. w : Seen(k)[i] = Frame(k)[i]
      /\ w = l % U16
  BY SeenIs
<1>2. l \in Nat /\ DOMAIN Frame(k) = 1 .. l
  BY FrameIs
<1>3. PICK enc \in FitRowLossy(Seen(k), loss) :
        f = [len |-> (Overhead + enc.len) % U16, enc |-> enc, width |-> w, original |-> l]
  BY DEF FrameFile
<1>4. f.enc = enc /\ f.width = w /\ f.original = l /\ f.len = (Overhead + enc.len) % U16
  BY <1>3
<1>5. loss \in Nat /\ MaxPixel \in Nat
  BY LossyRowAssumption
<1>6. /\ enc.len \in Nat /\ row \in [1 .. w -> 0 .. MaxPixel]
      /\ \A i \in 1 .. w : Within(row[i], Seen(k)[i], loss)
  <2>1. enc.len \in Nat /\ ReconstructRow(enc, Len(Seen(k))) \in [DOMAIN Seen(k) -> 0 .. MaxPixel]
    BY <1>1, <1>5, FitWithin
  <2>2. \A i \in DOMAIN Seen(k) : Within(ReconstructRow(enc, Len(Seen(k)))[i], Seen(k)[i], loss)
    BY <1>1, <1>5, FitWithin
  <2> QED BY <1>1, <1>4, <2>1, <2>2
<1> HIDE DEF w, l, row
<1>7. Decompressed(f) = [i \in 1 .. l |-> IF i <= w THEN row[i] ELSE 0]
  BY <1>4 DEF Decompressed, row
<1>8. Decompressed(f) \in [1 .. l -> 0 .. MaxPixel]
  <2>1. \A i \in 1 .. l : i <= w => i \in 1 .. w
    BY <1>1, <1>2 DEF l
  <2>2. 0 \in 0 .. MaxPixel
    BY <1>5
  <2>3. \A i \in 1 .. l : (IF i <= w THEN row[i] ELSE 0) \in 0 .. MaxPixel
    BY <1>6, <2>1, <2>2
  <2> QED BY <1>7, <2>3
<1>9. Decompressed(f) \in Seq(0 .. MaxPixel) /\ Len(Decompressed(f)) = l
  <2>1. ASSUME NEW m \in Nat, NEW S, NEW g \in [1 .. m -> S] PROVE g \in Seq(S) /\ Len(g) = m
    OBVIOUS
  <2>2. l \in Nat
    BY <1>2 DEF l
  <2> QED BY <1>8, <2>1, <2>2
<1>10. \A i \in 1 .. w : i \in 1 .. l /\ i <= w /\ Decompressed(f)[i] = row[i]
  BY <1>1, <1>2, <1>7 DEF w, l
<1>11. \A i \in 1 .. w : Within(Decompressed(f)[i], Frame(k)[i], loss)
  BY <1>1, <1>6, <1>10 DEF w
<1>12. \A i \in 1 .. l : ~(i <= w) => Decompressed(f)[i] = 0
  BY <1>7
<1> QED BY <1>1, <1>2, <1>4, <1>6, <1>8, <1>9, <1>11, <1>12 DEF l, w


\* Samples near each other are near as signed numbers, or lie on the two sides of the fold.
LEMMA SampleNear ==
  ASSUME NEW h \in 0 .. MaxPixel, NEW x \in 0 .. MaxPixel, loss \in Nat, Within(h, x, loss)
  PROVE  Kept(h, x)
<1> DEFINE max == MaxPixel
<1>1. max \in Nat /\ max % 2 = 1
  BY LossyRowAssumption
<1>2. h \in Nat /\ x \in Nat /\ h - x <= loss /\ x - h <= loss
  BY DEF Within
<1>3. \A u \in Nat : 2 * u # max
  BY <1>1
<1> HIDE DEF max
<1>4. CASE PixelBytes # 2 \/ (2 * h > max <=> 2 * x > max)
  BY <1>1, <1>2, <1>4 DEF Sample, Distance, Kept, max
<1>5. CASE PixelBytes = 2 /\ 2 * h > max /\ ~(2 * x > max)
  <2>1. max - 2 * x <= 2 * loss - 1
    BY <1>1, <1>2, <1>5
  <2>2. 2 * x < max
    BY <1>1, <1>2, <1>3, <1>5
  <2>3. NearTheFold(x)
    BY <1>1, <1>2, <1>5, <2>1, <2>2 DEF NearTheFold, Distance, max
  <2>4. Sample(h) = h - (max + 1) /\ Sample(x) = x
    BY <1>5 DEF Sample, max
  <2>5. Distance(h - (max + 1), x) >= max + 1 - loss
    BY <1>1, <1>2, <2>2, h <= max DEF Distance, max
  <2> QED BY <2>3, <2>4, <2>5 DEF Kept, max
<1>6. CASE PixelBytes = 2 /\ ~(2 * h > max) /\ 2 * x > max
  <2>1. 2 * h < max
    BY <1>1, <1>2, <1>3, <1>6
  <2>2. 2 * x - max <= 2 * loss - 1
    BY <1>1, <1>2, <1>6, <2>1
  <2>3. NearTheFold(x)
    BY <1>1, <1>2, <1>6, <2>2 DEF NearTheFold, Distance, max
  <2>4. Sample(h) = h /\ Sample(x) = x - (max + 1)
    BY <1>6 DEF Sample, max
  <2>5. Distance(h, x - (max + 1)) >= max + 1 - loss
    BY <1>1, <1>2, <2>1, x <= max DEF Distance, max
  <2> QED BY <2>3, <2>4, <2>5 DEF Kept, max
<1> QED BY <1>4, <1>5, <1>6

FramesOfFile == UNION {FrameFile(k) : k \in 1 .. NumFrames}

\* Nothing was cut from the frame at its length field.
Whole(f) == f.len = Overhead + f.enc.len

\* What was heard so far is what the frames decode to.
AudioInv ==
  /\ recording \in Recordings /\ loss \in Qualities
  /\ phase \in {"Encode", "Decode", "Done", "Misread"}
  /\ frames \in Seq(FramesOfFile) /\ Len(frames) <= NumFrames
  /\ \A k \in DOMAIN frames : frames[k] \in FrameFile(k)
  /\ phase = "Encode" => heard = <<>>
  /\ phase # "Encode" => Len(frames) = NumFrames
  /\ heard \in Seq(Seq(0 .. MaxPixel)) /\ Len(heard) <= Announced
  /\ \A k \in DOMAIN heard : heard[k] = Decompressed(frames[k]) /\ Whole(frames[k])
  /\ phase = "Done" => Len(heard) = Announced
  /\ phase = "Misread" => Len(heard) < Announced /\ ~Whole(frames[Len(heard) + 1])

\* The number of frames is a number, and the header tells of no more.
LEMMA AnnouncedIs ==
  ASSUME AudioInv
  PROVE  /\ NumFrames \in Int /\ Len(frames) \in Nat /\ DOMAIN frames = 1 .. Len(frames)
         /\ Announced \in Nat /\ Announced <= Len(frames)
         /\ Len(heard) \in Nat /\ DOMAIN heard = 1 .. Len(heard)
         /\ NumFrames < U16 /\ Len(frames) = NumFrames => Announced = NumFrames
<1>1. NumFrames \in Int
  <2>1. Len(recording.samples) \in Nat /\ recording.frame \in Nat \ {0}
    BY AudioAssumption DEF AudioInv
  <2> QED BY <2>1 DEF NumFrames
<1>2. Len(frames) \in Nat /\ Len(heard) \in Nat
      /\ DOMAIN frames = 1 .. Len(frames) /\ DOMAIN heard = 1 .. Len(heard)
  BY DEF AudioInv
<1>3. PICK l \in Nat : l = Len(frames)
  BY <1>2
<1>4. U16 \in Nat \ {0}
  BY LossyRowAssumption
<1>5. l % U16 \in Nat /\ l % U16 <= l /\ (l < U16 => l % U16 = l)
  BY <1>4
<1> QED BY <1>1, <1>2, <1>3, <1>5 DEF Announced

\* Before the first frame.
LEMMA AudioStarts == AudioInit => AudioInv
<1> SUFFICES ASSUME AudioInit PROVE AudioInv
  OBVIOUS
<1>1. recording \in Recordings /\ frames = <<>> /\ heard = <<>> /\ phase = "Encode" /\ loss \in Qualities
  BY DEF AudioInit
<1>2. NumFrames \in Int /\ 0 <= NumFrames
  <2>1. PICK l \in Nat, f \in Nat \ {0} : l = Len(recording.samples) /\ f = recording.frame
    BY <1>1, AudioAssumption
  <2>2. (l + f - 1) \div f \in Int /\ 0 <= (l + f - 1) \div f
    OBVIOUS
  <2> QED BY <2>1, <2>2 DEF NumFrames
<1>3. U16 \in Nat \ {0}
  BY LossyRowAssumption
<1>4. Len(frames) = 0 /\ Len(heard) = 0 /\ 0 % U16 = 0
  BY <1>1, <1>3
<1> QED BY <1>1, <1>2, <1>4 DEF AudioInv, Announced

\* What stays as long as the recording does.
LEMMA FramesStay ==
  ASSUME UNCHANGED <<recording, loss>>
  PROVE  /\ NumFrames' = NumFrames /\ FramesOfFile' = FramesOfFile
         /\ \A k : FrameFile(k)' = FrameFile(k)
<1>1. NumFrames' = NumFrames /\ \A k : FrameFile(k)' = FrameFile(k)
  BY DEF NumFrames, FrameFile, Seen, Frame
<1> QED BY <1>1 DEF FramesOfFile

\* compress_audio, one frame
LEMMA EncodeFrameKeeps == AudioInv /\ EncodeFrame => AudioInv'
<1> SUFFICES ASSUME AudioInv, EncodeFrame PROVE AudioInv'
  OBVIOUS
<1> DEFINE k == Len(frames) + 1
<1>1. /\ phase = "Encode" /\ Len(frames) < NumFrames
      /\ UNCHANGED <<recording, loss, phase, heard>>
      /\ \E enc \in FitRowLossy(Seen(k), loss) :
           frames' = Append(frames, [len |-> (Overhead + enc.len) % U16, enc |-> enc,
                                     width |-> Len(Seen(k)), original |-> Len(Frame(k))])
  BY DEF EncodeFrame, Seen
<1>2. PICK f \in FrameFile(k) : frames' = Append(frames, f)
  BY <1>1 DEF FrameFile
<1>3. /\ NumFrames \in Int /\ Len(frames) \in Nat /\ DOMAIN frames = 1 .. Len(frames)
      /\ k \in 1 .. NumFrames
  BY <1>1, AnnouncedIs
<1>4. f \in FramesOfFile
  BY <1>3 DEF FramesOfFile
<1>5. frames \in Seq(FramesOfFile)
  BY DEF AudioInv
<1>6. /\ frames' \in Seq(FramesOfFile) /\ Len(frames') = k
      /\ \A j \in 1 .. Len(frames) : frames'[j] = frames[j]
      /\ frames'[k] = f /\ DOMAIN frames' = 1 .. k
  BY <1>2, <1>4, <1>5
<1>7. /\ NumFrames' = NumFrames /\ FramesOfFile' = FramesOfFile
      /\ \A j : FrameFile(j)' = FrameFile(j)
  BY <1>1, FramesStay
<1>8. \A j \in DOMAIN frames' : frames'[j] \in FrameFile(j)
  <2> TAKE j \in DOMAIN frames'
  <2>1. j \in 1 .. Len(frames) \/ j = k
    BY <1>3, <1>6
  <2> QED BY <1>3, <1>6, <2>1 DEF AudioInv
<1>9. heard = <<>> /\ Len(heard) = 0 /\ Announced' \in Nat
  <2>1. heard = <<>>
    BY <1>1 DEF AudioInv
  <2>2. PICK l \in Nat : l = Len(frames')
    BY <1>3, <1>6
  <2>3. l % U16 \in Nat
    BY LossyRowAssumption
  <2> QED BY <2>1, <2>2, <2>3 DEF Announced
<1>10. Len(frames') <= NumFrames
  BY <1>3, <1>6
<1> HIDE DEF k
<1>11. \A j \in DOMAIN frames' : frames'[j] \in FrameFile(j)'
  BY <1>7, <1>8
<1>12. \A j \in DOMAIN frames' : (frames[j] \in FrameFile(j))'
  BY <1>11
<1>13. recording \in Recordings /\ loss \in Qualities
  BY DEF AudioInv
<1> QED BY <1>1, <1>6, <1>7, <1>9, <1>10, <1>12, <1>13 DEF AudioInv

\* decompress_audio, one frame
LEMMA DecodeFrameKeeps == AudioInv /\ DecodeFrame => AudioInv'
<1> SUFFICES ASSUME AudioInv, DecodeFrame PROVE AudioInv'
  OBVIOUS
<1> DEFINE k == Len(heard) + 1
           f == frames[k]
<1>1. /\ phase = "Decode" /\ Len(heard) < Announced /\ UNCHANGED <<recording, loss, frames>>
      /\ IF Whole(f) THEN heard' = Append(heard, Decompressed(f)) /\ phase' = phase
                     ELSE heard' = heard /\ phase' = "Misread"
  BY DEF DecodeFrame, Whole
<1>2. /\ NumFrames \in Int /\ Len(frames) \in Nat /\ DOMAIN frames = 1 .. Len(frames)
      /\ Announced \in Nat /\ Announced <= Len(frames)
      /\ Len(heard) \in Nat /\ DOMAIN heard = 1 .. Len(heard)
      /\ Len(frames) = NumFrames
  BY <1>1, AnnouncedIs DEF AudioInv
<1>3. /\ NumFrames' = NumFrames /\ FramesOfFile' = FramesOfFile /\ Announced' = Announced
      /\ \A j : FrameFile(j)' = FrameFile(j)
  BY <1>1, FramesStay DEF Announced
<1>4. k \in DOMAIN frames /\ k \in 1 .. NumFrames
  BY <1>1, <1>2
<1>5. f \in FrameFile(k) /\ Decompressed(f) \in Seq(0 .. MaxPixel)
  BY <1>4, FrameDecoded DEF AudioInv
<1>6. \A j : (frames[j] \in FrameFile(j))' <=> frames[j] \in FrameFile(j)
  BY <1>1, <1>3
<1>7. CASE Whole(f)
  <2>1. heard' = Append(heard, Decompressed(f)) /\ phase' = "Decode"
    BY <1>1, <1>7
  <2>2. heard \in Seq(Seq(0 .. MaxPixel))
    BY DEF AudioInv
  <2>3. /\ heard' \in Seq(Seq(0 .. MaxPixel)) /\ Len(heard') = k
        /\ \A j \in 1 .. Len(heard) : heard'[j] = heard[j]
        /\ heard'[k] = Decompressed(f) /\ DOMAIN heard' = 1 .. k
    BY <1>5, <2>1, <2>2
  <2>4. \A j \in DOMAIN heard' : heard'[j] = Decompressed(frames[j]) /\ Whole(frames[j])
    <3> TAKE j \in DOMAIN heard'
    <3>1. j \in 1 .. Len(heard) \/ j = k
      BY <1>2, <2>3
    <3> QED BY <1>2, <1>7, <2>3, <3>1 DEF AudioInv
  <2>5. \A j \in DOMAIN heard' : (heard[j] = Decompressed(frames[j]) /\ Whole(frames[j]))'
    BY <1>1, <2>4 DEF Decompressed, Whole
  <2>6. Len(heard') <= Announced
    BY <1>1, <1>2, <2>3
  <2> HIDE DEF k, f
  <2> QED BY <1>1, <1>2, <1>3, <1>6, <2>1, <2>3, <2>5, <2>6 DEF AudioInv
<1>8. CASE ~Whole(f)
  <2>1. heard' = heard /\ phase' = "Misread"
    BY <1>1, <1>8
  <2>2. \A x : Whole(x)' <=> Whole(x)
    BY DEF Whole
  <2>3. \A x : Decompressed(x)' = Decompressed(x)
    BY DEF Decompressed
  <2>4. \A j \in DOMAIN heard' : (heard[j] = Decompressed(frames[j]) /\ Whole(frames[j]))'
    BY <1>1, <2>1, <2>2, <2>3 DEF AudioInv
  <2>5. ~Whole(frames[Len(heard) + 1])'
    BY <1>1, <1>8, <2>1 DEF Whole
  <2> HIDE DEF k, f
  <2> QED BY <1>1, <1>2, <1>3, <1>6, <2>1, <2>4, <2>5 DEF AudioInv
<1> QED BY <1>7, <1>8

\* Every step of the audio codec keeps it.
LEMMA AudioSteps == AudioInv /\ [AudioNext]_audioVars => AudioInv'
<1> SUFFICES ASSUME AudioInv, [AudioNext]_audioVars PROVE AudioInv'
  OBVIOUS
<1>1. CASE CloseFile \/ AllHeard \/ UNCHANGED audioVars
  <2>1. UNCHANGED <<recording, loss, frames, heard>>
    BY <1>1 DEF CloseFile, AllHeard, audioVars
  <2>2. /\ NumFrames' = NumFrames /\ FramesOfFile' = FramesOfFile /\ Announced' = Announced
        /\ \A j : FrameFile(j)' = FrameFile(j)
    BY <2>1, FramesStay DEF Announced
  <2>3. /\ \A j : (frames[j] \in FrameFile(j))' <=> frames[j] \in FrameFile(j)
        /\ \A j : (heard[j] = Decompressed(frames[j]) /\ Whole(frames[j]))'
                    <=> heard[j] = Decompressed(frames[j]) /\ Whole(frames[j])
        /\ \A j : Whole(frames[j])' <=> Whole(frames[j])
    BY <2>1, <2>2 DEF Decompressed, Whole
  <2> QED BY <1>1, <2>1, <2>2, <2>3 DEF CloseFile, AllHeard, audioVars, AudioInv
<1> QED BY <1>1, EncodeFrameKeeps, DecodeFrameKeeps DEF AudioNext


\* A frame is cut when its length field cannot hold its length.
LEMMA WholeIs ==
  ASSUME AudioInv, NEW k \in DOMAIN frames
  PROVE  Whole(frames[k]) <=> ~(Overhead + frames[k].enc.len >= U16)
<1> DEFINE f == frames[k]
<1>1. k \in 1 .. NumFrames /\ f \in FrameFile(k)
  BY AnnouncedIs DEF AudioInv
<1>2. f.enc.len \in Nat /\ f.len = (Overhead + f.enc.len) % U16
  BY <1>1, FrameDecoded DEF AudioInv
<1>3. PICK x \in Nat : x = Overhead + f.enc.len
  BY <1>2, AudioAssumption
<1>4. U16 \in Nat \ {0}
  BY LossyRowAssumption
<1>5. x % U16 = x <=> ~(x >= U16)
  <2>1. x % U16 < U16 /\ (x < U16 => x % U16 = x)
    BY <1>4
  <2>2. x % U16 \in Nat
    BY <1>4
  <2> QED BY <1>4, <2>1, <2>2
<1> QED BY <1>2, <1>3, <1>5 DEF Whole

\* What the invariant says of what is heard.
LEMMA AudioSays == AudioInv => AudioTypeOK /\ SamplesWithinQuality /\ FramesMisreadOnlyThere
<1> SUFFICES ASSUME AudioInv
             PROVE  AudioTypeOK /\ SamplesWithinQuality /\ FramesMisreadOnlyThere
  OBVIOUS
<1>1. /\ NumFrames \in Int /\ Len(frames) \in Nat /\ DOMAIN frames = 1 .. Len(frames)
      /\ Announced \in Nat /\ Announced <= Len(frames) /\ Len(frames) <= NumFrames
      /\ Len(heard) \in Nat /\ DOMAIN heard = 1 .. Len(heard) /\ Len(heard) <= Announced
      /\ recording \in Recordings /\ loss \in Qualities
  BY AnnouncedIs DEF AudioInv
<1>2. ASSUME NEW k \in DOMAIN heard
      PROVE  /\ k \in 1 .. NumFrames /\ heard[k] \in [DOMAIN Frame(k) -> 0 .. MaxPixel]
             /\ Len(heard[k]) = Len(Frame(k))
             /\ \A i \in 1 .. Len(Frame(k)) % U16 : Within(heard[k][i], Frame(k)[i], loss)
             /\ \A i \in DOMAIN Frame(k) : ~(i <= Len(Frame(k)) % U16) => heard[k][i] = 0
  <2>1. k \in DOMAIN frames /\ k \in 1 .. NumFrames
    BY <1>1
  <2>2. frames[k] \in FrameFile(k) /\ heard[k] = Decompressed(frames[k])
    BY <2>1 DEF AudioInv
  <2> QED BY <1>1, <2>1, <2>2, FrameDecoded
<1>3. AudioTypeOK
  <2>1. Len(heard) <= Len(frames)
    BY <1>1
  <2>2. phase \in {"Encode", "Decode", "Done", "Misread"}
    BY DEF AudioInv
  <2> QED BY <1>1, <1>2, <2>1, <2>2 DEF AudioTypeOK
<1>4. ASSUME phase = "Done" PROVE Len(heard) = NumFrames % U16
  BY <1>4 DEF AudioInv, Announced
<1>5. ASSUME NEW k \in DOMAIN heard, NEW i \in DOMAIN Frame(k), i <= Len(Frame(k)) % U16
      PROVE  Kept(heard[k][i], Frame(k)[i])
  <2>1. /\ k \in 1 .. NumFrames /\ heard[k] \in [DOMAIN Frame(k) -> 0 .. MaxPixel]
        /\ \A j \in 1 .. Len(Frame(k)) % U16 : Within(heard[k][j], Frame(k)[j], loss)
    BY <1>2
  <2>2. /\ Frame(k) \in Seq(0 .. MaxPixel) /\ DOMAIN Frame(k) = 1 .. Len(Frame(k))
        /\ Len(Frame(k)) \in Nat
    BY <1>1, <2>1, FrameIs
  <2>3. Len(Frame(k)) % U16 \in Nat
    <3>1. PICK l \in Nat : l = Len(Frame(k))
      BY <2>2
    <3>2. l % U16 \in Nat
      BY LossyRowAssumption
    <3> QED BY <3>1, <3>2
  <2>4. Within(heard[k][i], Frame(k)[i], loss)
    BY <1>5, <2>1, <2>2, <2>3
  <2>5. heard[k][i] \in 0 .. MaxPixel /\ Frame(k)[i] \in 0 .. MaxPixel
    BY <2>1, <2>2, ElementOfSeq
  <2>6. loss \in Nat
    BY <1>1, LossyRowAssumption
  <2> QED BY <2>4, <2>5, <2>6, SampleNear
<1>6. SamplesWithinQuality
  BY <1>2, <1>4, <1>5 DEF SamplesWithinQuality
<1>7. \A k \in 1 .. Announced :
        k \in DOMAIN frames /\ (Whole(frames[k]) <=> ~(Overhead + frames[k].enc.len >= U16))
  <2> TAKE k \in 1 .. Announced
  <2>1. k \in DOMAIN frames
    BY <1>1
  <2> QED BY <2>1, WholeIs
<1>8. ASSUME phase = "Misread" PROVE \E k \in 1 .. Announced : ~Whole(frames[k])
  <2>1. Len(heard) + 1 \in 1 .. Announced /\ ~Whole(frames[Len(heard) + 1])
    BY <1>1, <1>8 DEF AudioInv
  <2> QED BY <2>1
<1>9. ASSUME phase = "Done" PROVE \A k \in 1 .. Announced : Whole(frames[k])
  BY <1>1, <1>9 DEF AudioInv
<1>10. FramesMisreadOnlyThere
  BY <1>7, <1>8, <1>9 DEF FramesMisreadOnlyThere
<1> QED BY <1>3, <1>6, <1>10

-----------------------------------------------------------------------------
(* One image or one recording *)

\* The invariant of the codec at work.
LossyInv ==
  /\ container \in {"PLTI", "PLTA"}
  /\ container = "PLTI" => ImageInv
  /\ container = "PLTA" => AudioInv

\* Both codecs start with it and keep it, and neither touches the other's file.
LEMMA LossyInvariant == MCSpec => []LossyInv
<1>1. MCInit => LossyInv
  BY ImageStarts, AudioStarts DEF MCInit, LossyInv
<1>2. LossyInv /\ [MCNext]_<<container, vars, audioVars>> => LossyInv'
  BY ImageNext, AudioSteps DEF MCNext, LossyInv
<1> QED BY <1>1, <1>2, PTL DEF MCSpec

\* image.rs and audio.rs: every state has its type.
THEOREM LossyTypes == MCSpec => []TypeOK
<1>1. LossyInv => TypeOK
  BY ImageSays, AudioSays DEF LossyInv, TypeOK
<1> QED BY <1>1, LossyInvariant, PTL

\* In an image that is decoded every pixel is within the quality asked for.  In a recording a
\* sample is too, or it is a 16-bit sample near full scale that is heard at the other end of
\* the range; samples past the width of their image are heard as 0, and frames past the count
\* of the header are not heard.
THEOREM QualityIsKept == MCSpec => []WithinQuality
<1>1. LossyInv => WithinQuality
  BY ImageSays, AudioSays DEF LossyInv, WithinQuality
<1> QED BY <1>1, LossyInvariant, PTL

\* The decoder of images loses its place exactly if a row that shares its fit with fewer than
\* three others has a number that reads as a group marker, or a raw row is too long for its
\* length field; that of recordings exactly if an announced frame is.
THEOREM PlaceIsLostExactlyThere == MCSpec => []MisreadExactlyThere
<1>1. LossyInv => MisreadExactlyThere
  BY ImageSays, AudioSays DEF LossyInv, MisreadExactlyThere
<1> QED BY <1>1, LossyInvariant, PTL


-----------------------------------------------------------------------------
(* The video: planes *)

\* A set of frame numbers has a greatest.
LEMMA GreatestOf ==
  ASSUME NEW m \in Nat, NEW S, S \subseteq 0 .. m, S # {}
  PROVE  \E g \in S : \A k \in S : g >= k
<1> DEFINE T == {m - k : k \in S}
<1>1. T \subseteq Nat /\ T # {}
  <2>1. \A x \in S : m - x \in Nat
    OBVIOUS
  <2>2. PICK k \in S : m - k \in T
    OBVIOUS
  <2> QED BY <2>1, <2>2
<1>2. PICK l \in T : \A k \in T : l <= k
  <2> HIDE DEF T
  <2> QED BY <1>1, LeastOf
<1>3. PICK g \in S : l = m - g
  OBVIOUS
<1>4. ASSUME NEW k \in S PROVE g >= k
  <2>1. l <= m - k
    BY <1>2
  <2> QED BY <1>3, <2>1
<1> QED BY <1>4

\* The operators of the library that choose them.
LEMMA MinIs ==
  ASSUME NEW S, S \subseteq Nat, S # {}
  PROVE  Min(S) \in S /\ \A k \in S : Min(S) <= k
BY LeastOf DEF Min

\* The greatest, likewise.
LEMMA MaxIs ==
  ASSUME NEW m \in Nat, NEW S, S \subseteq 0 .. m, S # {}
  PROVE  Max(S) \in S /\ \A k \in S : Max(S) >= k
BY GreatestOf DEF Max

Plane(D) == [D -> 0 .. MaxByte]

NearPlane(a, b, D, q) == \A k \in D : Within(a[k], b[k], q)

\* What a byte is, and the middle of the bytes.
LEMMA MiddleIs == MaxByte \in Nat /\ Middle \in 0 .. MaxByte
BY VideoAssumption DEF Middle

\* A clamped number is a byte.
LEMMA ClampIs ==
  ASSUME NEW x \in Int
  PROVE  Clamp(x) \in 0 .. MaxByte /\ (x \in 0 .. MaxByte => Clamp(x) = x)
BY MiddleIs DEF Clamp

\* It is no further from a byte than it was.
LEMMA ClampNear ==
  ASSUME NEW x \in Int, NEW b \in 0 .. MaxByte, NEW q \in Nat, Within(x, b, q)
  PROVE  Within(Clamp(x), b, q)
BY MiddleIs DEF Clamp, Within

\* What the image codec makes of a plane is a plane within the quality of it.
LEMMA CompressedIs ==
  ASSUME NEW D, NEW p \in Plane(D), NEW q \in Nat, NEW x \in Compressed(p, q)
  PROVE  x \in Plane(D) /\ NearPlane(x, p, D, q)
<1>1. DOMAIN p = D /\ \A i \in D : p[i] \in 0 .. MaxByte
  BY DEF Plane
<1>2. PICK e \in [D -> {-q, q}] : x = [i \in D |-> Clamp(p[i] + e[i])]
  BY <1>1 DEF Compressed
<1>3. ASSUME NEW i \in D
      PROVE  Clamp(p[i] + e[i]) \in 0 .. MaxByte /\ Within(Clamp(p[i] + e[i]), p[i], q)
  <2>1. e[i] \in {-q, q} /\ p[i] \in 0 .. MaxByte
    BY <1>1
  <2>2. p[i] + e[i] \in Int /\ Within(p[i] + e[i], p[i], q)
    BY <2>1, MiddleIs DEF Within
  <2> QED BY <2>1, <2>2, ClampIs, ClampNear
<1> QED BY <1>2, <1>3 DEF Plane, NearPlane

\* A prediction is a plane.
LEMMA PredictedIs ==
  ASSUME NEW D, NEW r \in Plane(D), NEW mvs
  PROVE  Predicted(r, mvs) \in Plane(D)
BY MiddleIs DEF Predicted, Plane

\* Predictions from planes that are near are near: the vectors are the same.
LEMMA PredictedNear ==
  ASSUME NEW D, NEW r \in Plane(D), NEW s \in Plane(D), NEW mvs, NEW b \in Nat,
         NearPlane(r, s, D, b)
  PROVE  NearPlane(Predicted(r, mvs), Predicted(s, mvs), D, b)
<1>1. DOMAIN r = D /\ DOMAIN s = D
  BY DEF Plane
<1>2. Within(Middle, Middle, b)
  BY MiddleIs DEF Within
<1> SUFFICES ASSUME NEW i \in D
             PROVE  Within(Predicted(r, mvs)[i], Predicted(s, mvs)[i], b)
  BY DEF NearPlane
<1> DEFINE from == i + mvs[(i - 1) \div BlockSize + 1]
<1>3. /\ Predicted(r, mvs)[i] = IF from \in D THEN r[from] ELSE Middle
      /\ Predicted(s, mvs)[i] = IF from \in D THEN s[from] ELSE Middle
  BY <1>1 DEF Predicted
<1> HIDE DEF from
<1> QED BY <1>2, <1>3 DEF NearPlane

\* Differences and sums of planes are planes.
LEMMA ResidualIs ==
  ASSUME NEW D, NEW p \in Plane(D), NEW r \in Plane(D)
  PROVE  /\ Residual(p, r) \in Plane(D) /\ Restored(p, r) \in Plane(D)
         /\ \A k \in D : /\ Residual(p, r)[k] = Clamp(p[k] - r[k] + Middle)
                         /\ Restored(p, r)[k] = Clamp(r[k] + p[k] - Middle)
<1>1. DOMAIN p = D /\ \A k \in D : p[k] \in 0 .. MaxByte /\ r[k] \in 0 .. MaxByte
  BY DEF Plane
<1>2. \A k \in D : p[k] - r[k] + Middle \in Int /\ r[k] + p[k] - Middle \in Int
  BY <1>1, MiddleIs
<1>3. \A k \in D : /\ Clamp(p[k] - r[k] + Middle) \in 0 .. MaxByte
                   /\ Clamp(r[k] + p[k] - Middle) \in 0 .. MaxByte
  BY <1>2, ClampIs
<1> QED BY <1>1, <1>3 DEF Residual, Restored, Plane

\* A plane put together from a difference that fits a byte and a plane that is off by b is
\* off by what the difference is off, and b.
LEMMA RestoredNear ==
  ASSUME NEW D, NEW p \in Plane(D), NEW r \in Plane(D), NEW s \in Plane(D), NEW x \in Plane(D),
         NEW q \in Nat, NEW b \in Nat,
         \A k \in D : p[k] - r[k] + Middle \in 0 .. MaxByte,
         NearPlane(x, Residual(p, r), D, q), NearPlane(s, r, D, b)
  PROVE  NearPlane(Restored(x, s), p, D, b + q)
<1> SUFFICES ASSUME NEW k \in D PROVE Within(Restored(x, s)[k], p[k], b + q)
  BY DEF NearPlane
<1>1. /\ p[k] \in 0 .. MaxByte /\ r[k] \in 0 .. MaxByte
      /\ s[k] \in 0 .. MaxByte /\ x[k] \in 0 .. MaxByte
  BY DEF Plane
<1>2. Residual(p, r)[k] = p[k] - r[k] + Middle
  BY ResidualIs, ClampIs
<1>3. Restored(x, s)[k] = Clamp(s[k] + x[k] - Middle)
  BY ResidualIs
<1>4. Within(x[k], p[k] - r[k] + Middle, q) /\ Within(s[k], r[k], b)
  BY <1>2 DEF NearPlane
<1>5. s[k] + x[k] - Middle \in Int /\ Within(s[k] + x[k] - Middle, p[k], b + q) /\ b + q \in Nat
  BY <1>1, <1>4, MiddleIs DEF Within
<1> QED BY <1>1, <1>3, <1>5, ClampNear


-----------------------------------------------------------------------------
(* The video: what is in the file *)

FrameIn(f, D, E) == f \in [y : Plane(D), c : Plane(E)]

\* A frame with the planes of frame i.
FrameLike(f, i) == FrameIn(f, DOMAIN Frames[i].y, DOMAIN Frames[i].c)

\* What the assumption says of a video.
LEMMA VideoIs ==
  ASSUME video \in Videos
  PROVE  /\ video.gop \in Nat /\ video.quality \in Nat /\ video.odd \in BOOLEAN
         /\ Len(Frames) \in Nat /\ DOMAIN Frames = 1 .. Len(Frames)
         /\ \A i \in DOMAIN Frames : FrameLike(Frames[i], i)
         /\ \A i, j \in DOMAIN Frames : /\ DOMAIN Frames[i].y = DOMAIN Frames[j].y
                                       /\ DOMAIN Frames[i].c = DOMAIN Frames[j].c
         /\ \A f : \A i \in DOMAIN Frames : FrameLike(f, i) => f # NoFrame
<1>1. /\ video.gop \in Nat /\ video.quality \in Nat /\ video.odd \in BOOLEAN
      /\ Frames \in Seq([y : Seq(0 .. MaxByte), c : Seq(0 .. MaxByte)])
      /\ \A f, g \in {Frames[i] : i \in DOMAIN Frames} : Len(f.y) = Len(g.y) /\ Len(f.c) = Len(g.c)
  BY VideoAssumption DEF Frames
<1>2. /\ Len(Frames) \in Nat /\ DOMAIN Frames = 1 .. Len(Frames)
      /\ \A i \in DOMAIN Frames : Frames[i] \in [y : Seq(0 .. MaxByte), c : Seq(0 .. MaxByte)]
  <2> DEFINE S == [y : Seq(0 .. MaxByte), c : Seq(0 .. MaxByte)]
  <2>1. Frames \in Seq(S)
    BY <1>1
  <2> HIDE DEF S
  <2>2. Len(Frames) \in Nat /\ DOMAIN Frames = 1 .. Len(Frames)
    BY <2>1
  <2>3. \A i \in 1 .. Len(Frames) : Frames[i] \in S
    BY <2>1, ElementOfSeq
  <2> QED BY <2>2, <2>3 DEF S
<1>3. \A s \in Seq(0 .. MaxByte) : /\ Len(s) \in Nat /\ DOMAIN s = 1 .. Len(s)
                                   /\ s \in Plane(DOMAIN s)
  <2> TAKE s \in Seq(0 .. MaxByte)
  <2>1. Len(s) \in Nat /\ DOMAIN s = 1 .. Len(s) /\ s = [i \in DOMAIN s |-> s[i]]
    OBVIOUS
  <2>2. \A i \in 1 .. Len(s) : s[i] \in 0 .. MaxByte
    BY ElementOfSeq
  <2> QED BY <2>1, <2>2 DEF Plane
<1>4. \A i \in DOMAIN Frames : FrameLike(Frames[i], i)
  <2> TAKE i \in DOMAIN Frames
  <2>1. /\ Frames[i].y \in Seq(0 .. MaxByte) /\ Frames[i].c \in Seq(0 .. MaxByte)
        /\ Frames[i] = [y |-> Frames[i].y, c |-> Frames[i].c]
    BY <1>2
  <2> QED BY <1>3, <2>1 DEF FrameLike, FrameIn
<1>5. \A i, j \in DOMAIN Frames : /\ DOMAIN Frames[i].y = DOMAIN Frames[j].y
                                  /\ DOMAIN Frames[i].c = DOMAIN Frames[j].c
  <2> TAKE i \in DOMAIN Frames, j \in DOMAIN Frames
  <2>1. Len(Frames[i].y) = Len(Frames[j].y) /\ Len(Frames[i].c) = Len(Frames[j].c)
    BY <1>1
  <2>2. /\ Frames[i].y \in Seq(0 .. MaxByte) /\ Frames[i].c \in Seq(0 .. MaxByte)
        /\ Frames[j].y \in Seq(0 .. MaxByte) /\ Frames[j].c \in Seq(0 .. MaxByte)
    BY <1>2
  <2> QED BY <1>3, <2>1, <2>2
<1>6. ASSUME NEW f, NEW i \in DOMAIN Frames, FrameLike(f, i) PROVE f # NoFrame
  <2>1. Frames[i].y \in Seq(0 .. MaxByte) /\ Frames[i].c \in Seq(0 .. MaxByte)
    BY <1>2
  <2>2. PICK m \in Nat, l \in Nat : DOMAIN Frames[i].y = 1 .. m /\ DOMAIN Frames[i].c = 1 .. l
    BY <1>3, <2>1
  <2>3. f.y \in [1 .. m -> 0 .. MaxByte] /\ f.c \in [1 .. l -> 0 .. MaxByte]
        /\ f = [y |-> f.y, c |-> f.c]
    BY <1>6, <2>2 DEF FrameLike, FrameIn, Plane
  <2>4. \A g, k, S : k \in Nat /\ g \in [1 .. k -> S] => g \in Seq(S)
    OBVIOUS
  <2>5. f.y \in Seq(0 .. MaxByte) /\ f.c \in Seq(0 .. MaxByte)
    BY <2>3, <2>4
  <2>6. f \in [y : Seq(0 .. MaxByte), c : Seq(0 .. MaxByte)]
    BY <2>3, <2>5
  <2> QED BY <2>6, VideoAssumption
<1> QED BY <1>1, <1>2, <1>4, <1>5, <1>6

\* The next I frame is one, and there is none before it.
LEMMA NextIntraIs ==
  ASSUME video.gop \in Nat \ {0}, NEW i \in Nat \ {0}
  PROVE  /\ NextIntra(i) \in Nat /\ NextIntra(i) > i /\ IsIFrame(NextIntra(i))
         /\ \A j \in i + 1 .. NextIntra(i) - 1 : ~IsIFrame(j)
<1> DEFINE g == video.gop
           q == (i - 1) \div g
<1>1. g \in Nat \ {0} /\ q \in Nat /\ g * q <= i - 1 /\ i - 1 < g * q + g
  BY DEF q
<1> HIDE DEF q, g
<1>2. NextIntra(i) = (q + 1) * g + 1
  BY DEF NextIntra, q, g
<1>3. PICK p \in Nat : p = g * q
  BY <1>1
<1>4. (q + 1) * g = p + g
  BY <1>1, <1>3
<1>5. NextIntra(i) \in Nat /\ NextIntra(i) > i /\ NextIntra(i) = p + g + 1
  BY <1>1, <1>2, <1>3, <1>4
<1>6. IsIFrame(NextIntra(i))
  <2>1. NextIntra(i) - 1 = (q + 1) * g
    BY <1>1, <1>2, <1>4
  <2>2. ((q + 1) * g) % g = 0
    BY <1>1
  <2> QED BY <2>1, <2>2 DEF IsIFrame, g
<1>7. ASSUME NEW j \in i + 1 .. NextIntra(i) - 1 PROVE ~IsIFrame(j)
  <2> DEFINE d == (j - 1) \div g
  <2> SUFFICES ASSUME (j - 1) % g = 0 PROVE FALSE
    BY DEF IsIFrame, g
  <2>1. j - 1 \in Nat /\ j - 1 > p - 1 /\ j - 1 > i - 1 /\ j - 1 < p + g
    BY <1>1, <1>3, <1>5
  <2>2. d \in Nat /\ j - 1 = g * d
    BY <1>1, <2>1
  <2> HIDE DEF d
  <2>3. g * d > g * q
    BY <1>1, <1>3, <2>1, <2>2
  <2>4. d >= q + 1
    <3> SUFFICES ASSUME d <= q PROVE FALSE
      BY <1>1, <2>2
    <3>1. g * d <= g * q
      BY <1>1, <2>2
    <3> QED BY <1>1, <2>2, <2>3, <3>1
  <2>5. g * d >= g * (q + 1) /\ g * (q + 1) = p + g
    BY <1>1, <1>3, <2>2, <2>4
  <2> QED BY <1>1, <2>1, <2>2, <2>5
<1> QED BY <1>5, <1>6, <1>7


\* Where frame i was coded from: the next I frame, or the last before it that is no B.
Source(i, s) ==
  IF file[i].dir = 1 THEN s = NextIntra(i)
  ELSE s \in 1 .. i - 1 /\ file[s].type # "B" /\ \A j \in s + 1 .. i - 1 : file[j].type = "B"

\* What a frame may be coded as from frame s.
InterFrom(i, s) ==
  {e \in UNION {Inter(type, dir, Frames[i], Frames[s], video.quality) :
                  type \in {"P", "B"}, dir \in {0, 1}} : e.dir = 1 => e.type = "B"}

\* Entry i of the file is what encode_video may make of frame i.
Coded(i) ==
  IF IsIFrame(i) THEN file[i] \in Intra(Frames[i], video.quality)
  ELSE \E s \in DOMAIN Frames : Source(i, s) /\ file[i] \in InterFrom(i, s)

AnyEntry ==
  UNION {Intra(Frames[i], video.quality) \union UNION {InterFrom(i, s) : s \in DOMAIN Frames} :
           i \in DOMAIN Frames}

LastReference ==
  IF file = <<>> THEN reference = 0
  ELSE /\ reference \in 1 .. Len(file) /\ file[reference].type # "B"
       /\ \A j \in reference + 1 .. Len(file) : file[j].type = "B"

\* The encoder is right so far.
Coding ==
  /\ video \in Videos
  /\ file \in Seq(AnyEntry) /\ Len(file) <= Len(Frames)
  /\ file # <<>> => video.gop # 0
  /\ \A i \in DOMAIN file : Coded(i)
  /\ LastReference
  /\ step \in {"References", "Bidirectional", "Done"} => Len(file) = Len(Frames)

\* What is in an entry.
LEMMA IntraIs ==
  ASSUME video \in Videos, NEW i \in DOMAIN Frames, NEW e \in Intra(Frames[i], video.quality)
  PROVE  /\ e.type = "I" /\ e.dir = 0 /\ e.mvs = <<>>
         /\ e.y \in Plane(DOMAIN Frames[i].y) /\ e.c \in Plane(DOMAIN Frames[i].c)
         /\ NearPlane(e.y, Frames[i].y, DOMAIN Frames[i].y, video.quality)
         /\ NearPlane(e.c, Frames[i].c, DOMAIN Frames[i].c, video.quality)
<1>1. PICK y \in Compressed(Frames[i].y, video.quality), c \in Compressed(Frames[i].c, video.quality) :
        e = [type |-> "I", dir |-> 0, mvs |-> <<>>, y |-> y, c |-> c]
  BY DEF Intra
<1>2. /\ Frames[i].y \in Plane(DOMAIN Frames[i].y) /\ Frames[i].c \in Plane(DOMAIN Frames[i].c)
      /\ video.quality \in Nat
  BY VideoIs DEF FrameLike, FrameIn
<1> QED BY <1>1, <1>2, CompressedIs

\* And in one coded as a difference.
LEMMA InterIs ==
  ASSUME video \in Videos, NEW i \in DOMAIN Frames, NEW s \in DOMAIN Frames, NEW e \in InterFrom(i, s)
  PROVE  LET residual == Residual(Frames[i].y, Predicted(Frames[s].y, e.mvs))
         IN  /\ e.type \in {"P", "B"} /\ e.dir \in {0, 1} /\ (e.dir = 1 => e.type = "B")
             /\ e.y \in Plane(DOMAIN Frames[i].y) /\ e.c \in Plane(DOMAIN Frames[i].c)
             /\ NearPlane(e.y, residual, DOMAIN Frames[i].y, video.quality)
             /\ NearPlane(e.c, Residual(Frames[i].c, Frames[s].c), DOMAIN Frames[i].c, video.quality)
<1> DEFINE D == DOMAIN Frames[i].y
           E == DOMAIN Frames[i].c
<1>1. PICK type \in {"P", "B"}, dir \in {0, 1} :
        /\ e \in Inter(type, dir, Frames[i], Frames[s], video.quality)
        /\ e.dir = 1 => e.type = "B"
  BY DEF InterFrom
<1> DEFINE mvs == Vectors(Frames[i].y, Frames[s].y)
           ry == Residual(Frames[i].y, Predicted(Frames[s].y, mvs))
           rc == Residual(Frames[i].c, Frames[s].c)
<1>2. PICK y \in Compressed(ry, video.quality), c \in Compressed(rc, video.quality) :
        e = [type |-> type, dir |-> dir, mvs |-> mvs, y |-> y, c |-> c]
  BY <1>1 DEF Inter
<1>3. e.type = type /\ e.dir = dir /\ e.mvs = mvs /\ e.y = y /\ e.c = c
  BY <1>2
<1>4. /\ Frames[i].y \in Plane(D) /\ Frames[i].c \in Plane(E)
      /\ Frames[s].y \in Plane(D) /\ Frames[s].c \in Plane(E)
      /\ video.quality \in Nat
  BY VideoIs DEF FrameLike, FrameIn
<1> HIDE DEF D, E, mvs
<1>5. ry \in Plane(D) /\ rc \in Plane(E)
  BY <1>4, PredictedIs, ResidualIs
<1> HIDE DEF ry, rc
<1>6. /\ y \in Plane(D) /\ NearPlane(y, ry, D, video.quality)
      /\ c \in Plane(E) /\ NearPlane(c, rc, E, video.quality)
  BY <1>4, <1>5, CompressedIs
<1> QED BY <1>1, <1>3, <1>6 DEF D, E, ry, rc

\* An entry of the file.
LEMMA CodedIs ==
  ASSUME video \in Videos, NEW i \in DOMAIN Frames, Coded(i)
  PROVE  /\ file[i].type \in {"I", "P", "B"} /\ (file[i].type = "I" <=> IsIFrame(i))
         /\ file[i].dir = 1 => file[i].type = "B"
         /\ file[i].y \in Plane(DOMAIN Frames[i].y) /\ file[i].c \in Plane(DOMAIN Frames[i].c)
<1>1. CASE IsIFrame(i)
  BY <1>1, IntraIs DEF Coded
<1>2. CASE ~IsIFrame(i)
  <2>1. PICK s \in DOMAIN Frames : file[i] \in InterFrom(i, s)
    BY <1>2 DEF Coded
  <2> QED BY <1>2, <2>1, InterIs
<1> QED BY <1>1, <1>2


\* Where the entries of the file were coded from.
LEMMA EntryIs ==
  ASSUME Coding, NEW i \in DOMAIN file
  PROVE  /\ i \in DOMAIN Frames /\ i \in Nat \ {0} /\ video.gop \in Nat \ {0}
         /\ file[i].type \in {"I", "P", "B"} /\ (file[i].type = "I" <=> IsIFrame(i))
         /\ file[i].dir = 1 => file[i].type = "B"
         /\ file[i].y \in Plane(DOMAIN Frames[i].y) /\ file[i].c \in Plane(DOMAIN Frames[i].c)
         /\ file[i].type = "I" => file[i] \in Intra(Frames[i], video.quality)
         /\ file[i].type # "I" => /\ CodedFrom(i) \in DOMAIN Frames /\ Source(i, CodedFrom(i))
                                  /\ file[i] \in InterFrom(i, CodedFrom(i))
<1>1. /\ video \in Videos /\ Coded(i) /\ Len(file) \in Nat /\ DOMAIN file = 1 .. Len(file)
      /\ Len(file) <= Len(Frames) /\ file # <<>>
  BY DEF Coding
<1>2. i \in DOMAIN Frames /\ i \in Nat \ {0} /\ video.gop \in Nat \ {0}
  <2>1. video.gop # 0
    BY <1>1 DEF Coding
  <2>2. DOMAIN Frames = 1 .. Len(Frames) /\ Len(Frames) \in Nat /\ video.gop \in Nat
    BY <1>1, VideoIs
  <2> QED BY <1>1, <2>1, <2>2
<1>3. ASSUME ~IsIFrame(i)
      PROVE  /\ CodedFrom(i) \in DOMAIN Frames /\ Source(i, CodedFrom(i))
             /\ file[i] \in InterFrom(i, CodedFrom(i))
  <2>1. PICK s \in DOMAIN Frames : Source(i, s) /\ file[i] \in InterFrom(i, s)
    BY <1>1, <1>3 DEF Coded
  <2>2. CASE file[i].dir = 1
    BY <2>1, <2>2 DEF Source, CodedFrom
  <2>3. CASE file[i].dir # 1
    <3> DEFINE S == {j \in 1 .. i - 1 : file[j].type # "B"}
    <3>1. /\ s \in 1 .. i - 1 /\ file[s].type # "B"
          /\ \A j \in s + 1 .. i - 1 : file[j].type = "B"
      BY <2>1, <2>3 DEF Source
    <3>2. s \in S /\ S \subseteq 0 .. i /\ S # {} /\ i \in Nat
      BY <1>2, <3>1
    <3>3. \A k \in S : k \in 1 .. i - 1 /\ ~(k \in s + 1 .. i - 1)
      BY <3>1
    <3>4. \A k \in S : k <= s
      BY <3>1, <3>3, <1>2
    <3>5. CodedFrom(i) = Max(S)
      BY <2>3 DEF CodedFrom
    <3> HIDE DEF S
    <3>6. Max(S) \in S /\ Max(S) >= s
      BY <3>2, MaxIs
    <3>7. Max(S) = s
      BY <3>1, <3>2, <3>4, <3>6, <1>2
    <3> QED BY <2>1, <3>5, <3>7
  <2> QED BY <2>2, <2>3
<1> QED BY <1>1, <1>2, <1>3, CodedIs DEF Coded

\* The encoder writes the next entry.
LEMMA AppendKeeps ==
  ASSUME Coding, step = "Encode", step' = step, video' = video,
         Len(file) < Len(Frames), video.gop > 0, NEW e, file' = Append(file, e),
         \/ /\ IsIFrame(Len(file) + 1) /\ e \in Intra(Frames[Len(file) + 1], video.quality)
            /\ reference' = Len(file) + 1
         \/ /\ ~IsIFrame(Len(file) + 1)
            /\ \E s \in DOMAIN Frames :
                 /\ e \in InterFrom(Len(file) + 1, s)
                 /\ s = IF e.dir = 1 THEN NextIntra(Len(file) + 1) ELSE reference
            /\ reference' = IF e.type = "B" THEN reference ELSE Len(file) + 1
  PROVE  Coding'
<1> DEFINE i == Len(file) + 1
<1>1. /\ video \in Videos /\ Len(file) \in Nat /\ DOMAIN file = 1 .. Len(file)
      /\ file \in Seq(AnyEntry) /\ video.gop \in Nat /\ Len(Frames) \in Nat
      /\ DOMAIN Frames = 1 .. Len(Frames) /\ i \in DOMAIN Frames /\ i \in Nat \ {0}
  BY VideoIs DEF Coding
<1>2. e \in AnyEntry
  BY <1>1 DEF AnyEntry
<1>3. /\ file' \in Seq(AnyEntry) /\ Len(file') = i /\ DOMAIN file' = 1 .. i
      /\ \A j \in 1 .. Len(file) : file'[j] = file[j]
      /\ file'[i] = e
  BY <1>1, <1>2
<1>4. /\ Frames' = Frames /\ AnyEntry' = AnyEntry
      /\ \A j : (IsIFrame(j)' <=> IsIFrame(j)) /\ NextIntra(j)' = NextIntra(j)
      /\ \A j, s : InterFrom(j, s)' = InterFrom(j, s)
  BY DEF Frames, AnyEntry, IsIFrame, NextIntra, InterFrom
<1>5. IsIFrame(1)
  BY <1>1 DEF IsIFrame
<1>6. \/ e.type = "I" /\ IsIFrame(i) /\ e \in Intra(Frames[i], video.quality) /\ reference' = i
      \/ /\ e.type \in {"P", "B"} /\ ~IsIFrame(i)
         /\ \E s \in DOMAIN Frames :
              e \in InterFrom(i, s) /\ s = IF e.dir = 1 THEN NextIntra(i) ELSE reference
         /\ reference' = IF e.type = "B" THEN reference ELSE i
  BY <1>1, IntraIs, InterIs
<1> HIDE DEF i
<1>7. i = Len(file) + 1
  BY DEF i
<1>8. ~IsIFrame(i) => /\ file # <<>> /\ reference \in 1 .. Len(file) /\ file[reference].type # "B"
                      /\ \A j \in reference + 1 .. Len(file) : file[j].type = "B"
  <2> SUFFICES ASSUME ~IsIFrame(i) PROVE file # <<>>
    BY DEF Coding, LastReference
  <2>1. i # 1
    BY <1>5
  <2> QED BY <1>7, <2>1
<1>9. LastReference'
  <2>1. file' # <<>>
    BY <1>1, <1>3
  <2>2. CASE reference' = i /\ e.type # "B"
    <3>1. reference' \in 1 .. Len(file') /\ file'[reference'].type # "B"
      BY <1>1, <1>3, <2>2
    <3>2. \A j \in reference' + 1 .. Len(file') : FALSE
      BY <1>1, <1>3, <2>2
    <3> QED BY <2>1, <3>1, <3>2 DEF LastReference
  <2>3. CASE reference' = reference /\ e.type = "B" /\ ~IsIFrame(i)
    <3>1. reference' \in 1 .. Len(file') /\ file'[reference'].type # "B"
      BY <1>1, <1>3, <1>7, <1>8, <2>3
    <3>2. ASSUME NEW j \in reference' + 1 .. Len(file') PROVE file'[j].type = "B"
      <4>1. j \in reference + 1 .. Len(file) \/ j = i
        BY <1>1, <1>3, <1>7, <1>8, <2>3
      <4>2. j \in reference + 1 .. Len(file) => j \in 1 .. Len(file)
        BY <1>1, <1>8, <2>3
      <4> QED BY <1>3, <1>8, <2>3, <4>1, <4>2
    <3> QED BY <2>1, <3>1, <3>2 DEF LastReference
  <2> QED BY <1>6, <2>2, <2>3
<1>10. ASSUME NEW j \in DOMAIN file' PROVE Coded(j)'
  <2>1. CASE j \in 1 .. Len(file)
    <3>1. Coded(j) /\ file'[j] = file[j]
      BY <1>1, <1>3, <2>1 DEF Coding
    <3>2. ASSUME NEW s, Source(j, s) PROVE Source(j, s)'
      <4>1. \A k \in 1 .. j : file'[k] = file[k]
        BY <1>1, <1>3, <2>1
      <4>2. CASE file[j].dir = 1
        BY <1>4, <3>1, <3>2, <4>2 DEF Source
      <4>3. CASE file[j].dir # 1
        <5>1. /\ s \in 1 .. j - 1 /\ file[s].type # "B"
              /\ \A k \in s + 1 .. j - 1 : file[k].type = "B"
          BY <3>2, <4>3 DEF Source
        <5>2. s \in 1 .. j /\ \A k \in s + 1 .. j - 1 : k \in 1 .. j
          BY <1>1, <2>1, <5>1
        <5> QED BY <3>1, <4>1, <4>3, <5>1, <5>2 DEF Source
      <4> QED BY <4>2, <4>3
    <3> QED BY <1>4, <3>1, <3>2 DEF Coded
  <2>2. CASE j = i
    <3>1. CASE IsIFrame(j)
      BY <1>3, <1>4, <1>6, <2>2, <3>1 DEF Coded
    <3>2. CASE ~IsIFrame(j)
      <4>1. PICK s \in DOMAIN Frames :
              e \in InterFrom(j, s) /\ s = IF e.dir = 1 THEN NextIntra(j) ELSE reference
        BY <1>6, <2>2, <3>2
      <4>2. Source(j, s)'
        <5>1. CASE e.dir = 1
          BY <1>3, <1>4, <2>2, <4>1, <5>1 DEF Source
        <5>2. CASE e.dir # 1
          <6>1. s \in 1 .. j - 1 /\ file'[s].type # "B"
            BY <1>1, <1>3, <1>7, <1>8, <2>2, <3>2, <4>1, <5>2
          <6>2. ASSUME NEW k \in s + 1 .. j - 1 PROVE file'[k].type = "B"
            <7>1. k \in reference + 1 .. Len(file) /\ k \in 1 .. Len(file)
              BY <1>1, <1>7, <1>8, <2>2, <3>2, <4>1, <5>2
            <7> QED BY <1>3, <1>8, <2>2, <3>2, <7>1
          <6> QED BY <1>3, <2>2, <5>2, <6>1, <6>2 DEF Source
        <5> QED BY <5>1, <5>2
      <4>3. file'[j] \in InterFrom(j, s)' /\ s \in DOMAIN Frames'
        BY <1>3, <1>4, <2>2, <4>1
      <4> QED BY <1>4, <2>2, <3>2, <4>2, <4>3 DEF Coded
    <3> QED BY <3>1, <3>2
  <2> QED BY <1>1, <1>3, <1>7, <2>1, <2>2
<1>11. \A j \in DOMAIN file' : Coded(j)'
  BY <1>10
<1>12. Len(file') <= Len(Frames') /\ video' \in Videos /\ video'.gop # 0
  BY <1>1, <1>3, <1>4, <1>7
<1>13. ~(step' \in {"References", "Bidirectional", "Done"})
  OBVIOUS
<1>14. file' \in Seq(AnyEntry')
  BY <1>3, <1>4
<1> QED BY <1>9, <1>11, <1>12, <1>13, <1>14 DEF Coding


\* encode_video, one frame: whichever type it has.
LEMMA EncodingKeeps == Coding /\ (EncodeI \/ EncodeB \/ EncodeP) => Coding'
<1> SUFFICES ASSUME Coding, EncodeI \/ EncodeB \/ EncodeP PROVE Coding'
  OBVIOUS
<1> DEFINE i == Len(file) + 1
<1>1. /\ Encoding(i) /\ step' = step /\ video' = video
  BY DEF EncodeI, EncodeB, EncodeP
<1>2. /\ step = "Encode" /\ Len(file) < Len(Frames) /\ video.gop > 0 /\ i \in Nat \ {0}
      /\ Len(file) \in Nat /\ video \in Videos /\ DOMAIN Frames = 1 .. Len(Frames) /\ Len(Frames) \in Nat
      /\ video.gop \in Nat \ {0} /\ i \in DOMAIN Frames
  BY <1>1, VideoIs DEF Encoding, Coding
<1>3. CASE EncodeI
  <2>1. PICK e \in Intra(Frames[i], video.quality) : file' = Append(file, e)
    BY <1>3 DEF EncodeI
  <2>2. IsIFrame(i) /\ reference' = i
    BY <1>3 DEF EncodeI
  <2> QED BY <1>1, <1>2, <2>1, <2>2, AppendKeeps
<1>4. ~IsIFrame(i) => reference \in DOMAIN Frames
  <2> SUFFICES ASSUME ~IsIFrame(i) PROVE file # <<>>
    BY <1>2 DEF Coding, LastReference
  <2>1. IsIFrame(1)
    BY <1>2 DEF IsIFrame
  <2>2. i # 1
    BY <2>1
  <2> QED BY <1>2, <2>2
<1>5. CASE EncodeP
  <2>1. PICK e \in Inter("P", 0, Frames[i], Frames[reference], video.quality) : file' = Append(file, e)
    BY <1>5 DEF EncodeP
  <2>2. ~IsIFrame(i) /\ reference' = i
    BY <1>5 DEF EncodeP
  <2>3. e.type = "P" /\ e.dir = 0
    BY <2>1 DEF Inter
  <2>4. e \in InterFrom(i, reference)
    BY <2>1, <2>3 DEF InterFrom
  <2>5. \E s \in DOMAIN Frames :
          e \in InterFrom(i, s) /\ s = IF e.dir = 1 THEN NextIntra(i) ELSE reference
    BY <1>4, <2>2, <2>3, <2>4
  <2>6. reference' = IF e.type = "B" THEN reference ELSE i
    BY <2>2, <2>3
  <2> QED BY <1>1, <1>2, <2>1, <2>2, <2>5, <2>6, AppendKeeps
<1>6. CASE EncodeB
  <2> DEFINE past == Frames[reference]
             future == Frames[NextIntra(i)]
             dir == IF Sad(Frames[i].y, future.y) < Sad(Frames[i].y, past.y) THEN 1 ELSE 0
  <2>1. /\ ~IsIFrame(i) /\ UseBFrame(i) /\ reference' = reference
        /\ \E e \in Inter("B", dir, Frames[i], IF dir = 1 THEN future ELSE past, video.quality) :
             file' = Append(file, e)
    BY <1>6 DEF EncodeB
  <2>2. dir \in {0, 1}
    OBVIOUS
  <2> HIDE DEF dir
  <2>3. PICK e \in Inter("B", dir, Frames[i], IF dir = 1 THEN future ELSE past, video.quality) :
          file' = Append(file, e)
    BY <2>1
  <2> DEFINE s == IF dir = 1 THEN NextIntra(i) ELSE reference
  <2>4. NextIntra(i) \in DOMAIN Frames
    BY <1>2, <2>1, NextIntraIs DEF UseBFrame
  <2>5. s \in DOMAIN Frames
    BY <1>4, <2>1, <2>4
  <2>6. e \in Inter("B", dir, Frames[i], Frames[s], video.quality)
    BY <2>3
  <2>7. e.type = "B" /\ e.dir = dir
    BY <2>6 DEF Inter
  <2>8. e \in InterFrom(i, s)
    BY <2>2, <2>6, <2>7 DEF InterFrom
  <2>9. \E k \in DOMAIN Frames :
          e \in InterFrom(i, k) /\ k = IF e.dir = 1 THEN NextIntra(i) ELSE reference
    BY <2>5, <2>7, <2>8
  <2>10. reference' = IF e.type = "B" THEN reference ELSE i
    BY <2>1, <2>7
  <2> QED BY <1>1, <1>2, <2>1, <2>3, <2>9, <2>10, AppendKeeps
<1> QED BY <1>3, <1>5, <1>6

\* The decoder leaves the file alone.
LEMMA CodingStays ==
  ASSUME Coding, UNCHANGED <<video, file, reference>>,
         step' \in {"References", "Bidirectional", "Done"} => Len(file) = Len(Frames)
  PROVE  Coding'
<1>1. /\ Frames' = Frames /\ AnyEntry' = AnyEntry
      /\ \A j : (IsIFrame(j)' <=> IsIFrame(j)) /\ NextIntra(j)' = NextIntra(j)
      /\ \A j, s : InterFrom(j, s)' = InterFrom(j, s)
  BY DEF Frames, AnyEntry, IsIFrame, NextIntra, InterFrom
<1>2. \A j, s : Source(j, s)' <=> Source(j, s)
  BY <1>1 DEF Source
<1>3. \A j : Coded(j)' <=> Coded(j)
  BY <1>1, <1>2 DEF Coded
<1>4. LastReference' <=> LastReference
  BY DEF LastReference
<1> QED BY <1>1, <1>3, <1>4 DEF Coding


\* A function that is what the definition of Chain says of itself.
IsChain(f) ==
  f = [j \in 1 .. Len(file) |-> IF file[j].type = "I" THEN {j} ELSE {j} \union f[CodedFrom(j)]]

\* The frames a P frame goes back to: all those before it that are no B, to the last I.
BackTo(s) ==
  {k \in 1 .. s : file[k].type # "B" /\ \A l \in k + 1 .. s : file[l].type # "I"}

ChainOf(j) == IF file[j].type = "I" THEN {j} ELSE {j} \union BackTo(CodedFrom(j))

\* Going back from a frame that is no B ends at it, and goes on from where it was coded from.
LEMMA BackToIs ==
  ASSUME Coding, Len(file) = Len(Frames), NEW s \in DOMAIN file, file[s].type # "B"
  PROVE  BackTo(s) = ChainOf(s)
<1>1. /\ s \in Nat \ {0} /\ DOMAIN file = 1 .. Len(file) /\ Len(file) \in Nat
      /\ file[s].type \in {"I", "P", "B"}
      /\ file[s].dir = 1 => file[s].type = "B"
      /\ file[s].type # "I" => Source(s, CodedFrom(s))
  BY EntryIs DEF Coding
<1>2. CASE file[s].type = "I"
  <2>1. ASSUME NEW k \in BackTo(s) PROVE k = s
    <3>1. k \in 1 .. s /\ ~(s \in k + 1 .. s)
      BY <1>2, <2>1 DEF BackTo
    <3> QED BY <1>1, <3>1
  <2>2. s \in BackTo(s)
    BY <1>1, <1>2 DEF BackTo
  <2> QED BY <1>2, <2>1, <2>2 DEF ChainOf
<1>3. CASE file[s].type # "I"
  <2> DEFINE r == CodedFrom(s)
  <2>1. r \in 1 .. s - 1 /\ file[r].type # "B" /\ \A j \in r + 1 .. s - 1 : file[j].type = "B"
    BY <1>1, <1>3 DEF Source
  <2> HIDE DEF r
  <2>2. ASSUME NEW k \in BackTo(s), k # s PROVE k \in BackTo(r)
    <3>1. k \in 1 .. s - 1 /\ file[k].type # "B" /\ \A l \in k + 1 .. s : file[l].type # "I"
      BY <1>1, <2>2 DEF BackTo
    <3>2. ~(k \in r + 1 .. s - 1)
      BY <2>1, <3>1
    <3>3. k \in 1 .. r
      BY <1>1, <2>1, <3>1, <3>2
    <3>4. \A l \in k + 1 .. r : l \in k + 1 .. s
      BY <1>1, <2>1
    <3> QED BY <3>1, <3>3, <3>4 DEF BackTo
  <2>3. ASSUME NEW k \in BackTo(r) PROVE k \in BackTo(s)
    <3>1. k \in 1 .. r /\ file[k].type # "B" /\ \A l \in k + 1 .. r : file[l].type # "I"
      BY <2>3 DEF BackTo
    <3>2. k \in 1 .. s
      BY <1>1, <2>1, <3>1
    <3>3. ASSUME NEW l \in k + 1 .. s PROVE file[l].type # "I"
      <4>1. l \in k + 1 .. r \/ l \in r + 1 .. s - 1 \/ l = s
        BY <1>1, <2>1, <3>1
      <4> QED BY <1>3, <2>1, <3>1, <4>1
    <3> QED BY <3>1, <3>2, <3>3 DEF BackTo
  <2>4. s \in BackTo(s)
    <3>1. \A l \in s + 1 .. s : FALSE
      BY <1>1
    <3> QED BY <1>1, <3>1 DEF BackTo
  <2> QED BY <1>3, <2>2, <2>3, <2>4 DEF ChainOf, r
<1> QED BY <1>2, <1>3

\* What a frame was coded from is in the file and is no B.
LEMMA CodedFromIs ==
  ASSUME Coding, Len(file) = Len(Frames), NEW i \in DOMAIN file, file[i].type # "I"
  PROVE  CodedFrom(i) \in DOMAIN file /\ CodedFrom(i) # i /\ file[CodedFrom(i)].type # "B"
<1> DEFINE s == CodedFrom(i)
<1>1. /\ i \in Nat \ {0} /\ video.gop \in Nat \ {0} /\ DOMAIN file = 1 .. Len(file)
      /\ DOMAIN Frames = 1 .. Len(Frames) /\ s \in DOMAIN Frames /\ Source(i, s)
  BY EntryIs, VideoIs DEF Coding
<1>2. s \in DOMAIN file
  BY <1>1
<1> HIDE DEF s
<1>3. CASE file[i].dir = 1
  <2>1. s = NextIntra(i)
    BY <1>1, <1>3 DEF Source
  <2>2. s > i /\ IsIFrame(s)
    BY <1>1, <2>1, NextIntraIs
  <2>3. file[s].type = "I" /\ s # i
    BY <1>1, <1>2, <2>2, EntryIs
  <2> QED BY <1>2, <2>3 DEF s
<1>4. CASE file[i].dir # 1
  BY <1>1, <1>2, <1>4 DEF Source, s
<1> QED BY <1>3, <1>4

\* There is such a function, and only this one is meant.
LEMMA ChainIs ==
  ASSUME Coding, Len(file) = Len(Frames), NEW i \in DOMAIN file
  PROVE  Chain(i) = IF file[i].type = "I" THEN {i} ELSE {i} \union Chain(CodedFrom(i))
<1> DEFINE W == [j \in 1 .. Len(file) |-> ChainOf(j)]
<1>1. DOMAIN file = 1 .. Len(file)
  BY DEF Coding
<1>2. ASSUME NEW j \in 1 .. Len(file)
      PROVE  W[j] = IF file[j].type = "I" THEN {j} ELSE {j} \union W[CodedFrom(j)]
  <2>1. CASE file[j].type = "I"
    BY <2>1 DEF ChainOf
  <2>2. CASE file[j].type # "I"
    <3>1. CodedFrom(j) \in 1 .. Len(file) /\ file[CodedFrom(j)].type # "B"
      BY <1>1, <2>2, CodedFromIs
    <3>2. W[CodedFrom(j)] = BackTo(CodedFrom(j))
      BY <1>1, <3>1, BackToIs
    <3>3. W[j] = {j} \union BackTo(CodedFrom(j))
      BY <2>2 DEF ChainOf
    <3> QED BY <2>2, <3>2, <3>3
  <2> QED BY <2>1, <2>2
<1>3. IsChain(W)
  <2> HIDE DEF W
  <2>1. W = [j \in 1 .. Len(file) |-> W[j]]
    BY DEF W
  <2> QED BY <1>2, <2>1 DEF IsChain
<1> DEFINE C == CHOOSE f : IsChain(f)
<1>4. IsChain(C)
  BY <1>3
<1>5. \A j : Chain(j) = C[j]
  BY DEF Chain, IsChain
<1> HIDE DEF C
<1>6. C[i] = IF file[i].type = "I" THEN {i} ELSE {i} \union C[CodedFrom(i)]
  BY <1>1, <1>4 DEF IsChain
<1> QED BY <1>5, <1>6


\* What the chain of a frame is.
LEMMA ChainClosed ==
  ASSUME Coding, Len(file) = Len(Frames)
  PROVE  \A i \in DOMAIN file : Chain(i) = ChainOf(i)
<1>1. DOMAIN file = 1 .. Len(file) /\ Len(file) \in Nat
  BY DEF Coding
<1> DEFINE Odd == {j \in DOMAIN file : file[j].type # "B" /\ Chain(j) # BackTo(j)}
<1>2. ASSUME Odd # {} PROVE FALSE
  <2>1. PICK b \in Odd : \A k \in Odd : b <= k
    <3>1. Odd \subseteq Nat
      BY <1>1
    <3> HIDE DEF Odd
    <3> QED BY <1>2, <3>1, LeastOf
  <2>2. b \in DOMAIN file /\ b \in Nat /\ file[b].type # "B" /\ Chain(b) # BackTo(b)
    BY <1>1, <2>1
  <2>3. BackTo(b) = ChainOf(b)
    BY <2>2, BackToIs
  <2>4. CASE file[b].type = "I"
    BY <2>2, <2>3, <2>4, ChainIs DEF ChainOf
  <2>5. CASE file[b].type # "I"
    <3> DEFINE s == CodedFrom(b)
    <3>1. s \in DOMAIN file /\ file[s].type # "B"
      BY <2>2, <2>5, CodedFromIs
    <3>2. Source(b, s) /\ file[b].dir # 1
      BY <2>2, <2>5, EntryIs
    <3>3. s \in 1 .. b - 1
      BY <3>2 DEF Source
    <3> HIDE DEF s
    <3>4. ~(s \in Odd)
      BY <2>1, <2>2, <3>3
    <3>5. Chain(s) = BackTo(s)
      BY <3>1, <3>4
    <3>6. Chain(b) = {b} \union Chain(s) /\ ChainOf(b) = {b} \union BackTo(s)
      BY <2>2, <2>5, ChainIs DEF ChainOf, s
    <3> QED BY <2>2, <2>3, <3>5, <3>6
  <2> QED BY <2>4, <2>5
<1>3. \A j \in DOMAIN file : file[j].type # "B" => Chain(j) = BackTo(j)
  BY <1>2
<1> TAKE i \in DOMAIN file
<1>4. CASE file[i].type = "I"
  BY <1>4, ChainIs DEF ChainOf
<1>5. CASE file[i].type # "I"
  BY <1>3, <1>5, ChainIs, CodedFromIs DEF ChainOf
<1> QED BY <1>4, <1>5

\* The chain of a frame is one longer than that of the frame it was coded from.
LEMMA ChainGrows ==
  ASSUME Coding, Len(file) = Len(Frames), NEW i \in DOMAIN file
  PROVE  /\ Cardinality(Chain(i)) \in Nat
         /\ file[i].type = "I" => Cardinality(Chain(i)) = 1
         /\ i \in Chain(i)
         /\ file[i].type # "I" =>
              /\ Chain(CodedFrom(i)) \subseteq Chain(i)
              /\ Cardinality(Chain(CodedFrom(i))) \in Nat
              /\ Cardinality(Chain(i)) = Cardinality(Chain(CodedFrom(i))) + 1
<1>1. CASE file[i].type = "I"
  <2>1. Chain(i) = {i}
    BY <1>1, ChainIs
  <2>2. Cardinality({i}) = 1
    BY FS_Singleton
  <2> QED BY <1>1, <2>1, <2>2
<1>2. CASE file[i].type # "I"
  <2> DEFINE s == CodedFrom(i)
             C == BackTo(s)
  <2>1. /\ s \in DOMAIN file /\ file[s].type # "B" /\ Source(i, s)
        /\ file[i].dir = 1 => file[i].type = "B"
        /\ i \in Nat \ {0}
    BY <1>2, CodedFromIs, EntryIs
  <2>2. s \in Nat
    BY <2>1 DEF Coding
  <2>3. Chain(s) = ChainOf(s) /\ ChainOf(s) = C
    BY <2>1, ChainClosed, BackToIs
  <2>4. Chain(i) = C \union {i}
    BY <1>2, <2>3, ChainIs
  <2>5. ~(i \in C)
    <3> HIDE DEF s
    <3>1. CASE file[i].dir = 1
      BY <2>1, <3>1 DEF BackTo
    <3>2. CASE file[i].dir # 1
      <4>1. s \in 1 .. i - 1
        BY <2>1, <3>2 DEF Source
      <4>2. ~(i \in 1 .. s)
        BY <2>1, <4>1
      <4> QED BY <4>2 DEF BackTo
    <3> QED BY <3>1, <3>2
  <2>6. C \subseteq 1 .. s
    BY DEF BackTo
  <2> HIDE DEF C, s
  <2>7. IsFiniteSet(C) /\ Cardinality(C) \in Nat
    <3>1. IsFiniteSet(1 .. s)
      BY <2>2, FS_Interval
    <3> QED BY <2>6, <3>1, FS_Subset, FS_CardinalityType
  <2>8. Cardinality(C \union {i}) = Cardinality(C) + 1
    BY <2>5, <2>7, FS_AddElement
  <2> QED BY <1>2, <2>3, <2>4, <2>7, <2>8 DEF s
<1> QED BY <1>1, <1>2


-----------------------------------------------------------------------------
(* The video: the decoder *)

Off(i) == video.quality * Cardinality(Chain(i))

Close(f, i) == /\ NearPlane(f.y, Frames[i].y, DOMAIN Frames[i].y, Off(i))
               /\ NearPlane(f.c, Frames[i].c, DOMAIN Frames[i].c, Off(i))

\* The image codec or a difference too large spoilt frame i or one it was coded from.
Spoilt(i) == \E j \in Chain(i) : ~Representable(j) \/ j \in video.misread

\* The sides take the same reference for frame i and f is what the decoder makes of it.
Faithful(f, i) == FrameLike(f, i) /\ (Spoilt(i) \/ Close(f, i))

\* decode_iframe: an I frame is off by the quality.
LEMMA IntraFaithful ==
  ASSUME Coding, Len(file) = Len(Frames), NEW i \in DOMAIN file, file[i].type = "I"
  PROVE  Faithful([y |-> file[i].y, c |-> file[i].c], i)
<1>1. /\ i \in DOMAIN Frames /\ file[i] \in Intra(Frames[i], video.quality) /\ video \in Videos
      /\ video.quality \in Nat
  BY EntryIs, VideoIs DEF Coding
<1>2. Off(i) = video.quality
  <2>1. Cardinality(Chain(i)) = 1
    BY ChainGrows
  <2> QED BY <1>1, <2>1 DEF Off
<1> QED BY <1>1, <1>2, IntraIs DEF Faithful, FrameLike, FrameIn, Close

\* decode_pframe gives a frame of the right size whatever the reference.
LEMMA DecodedLike ==
  ASSUME Coding, NEW i \in DOMAIN file, NEW s \in DOMAIN Frames, NEW f, FrameLike(f, s)
  PROVE  FrameLike(DecodedFrom(file[i], f), i)
<1> DEFINE D == DOMAIN Frames[i].y
           E == DOMAIN Frames[i].c
<1>1. i \in DOMAIN Frames /\ video \in Videos
  BY EntryIs DEF Coding
<1>2. file[i].y \in Plane(D) /\ file[i].c \in Plane(E)
  BY EntryIs
<1>3. D = DOMAIN Frames[s].y /\ E = DOMAIN Frames[s].c
  BY <1>1, VideoIs
<1> HIDE DEF D, E
<1>4. f.y \in Plane(D) /\ f.c \in Plane(E)
  BY <1>3 DEF FrameLike, FrameIn
<1>5. /\ Restored(file[i].y, Predicted(f.y, file[i].mvs)) \in Plane(D)
      /\ Restored(file[i].c, f.c) \in Plane(E)
  BY <1>2, <1>4, PredictedIs, ResidualIs
<1> QED BY <1>5 DEF FrameLike, FrameIn, DecodedFrom, D, E

\* A frame that decode_video may store has the right size.
LEMMA DecodingLike ==
  ASSUME Coding, NEW i \in DOMAIN file, NEW r, NEW m,
         file[i].type # "I" => \E s \in DOMAIN Frames : FrameLike(r, s),
         NEW f \in Decodings(file[i], r, m)
  PROVE  FrameLike(f, i)
<1> DEFINE e == file[i]
           D == DOMAIN Frames[i].y
           E == DOMAIN Frames[i].c
<1>1. e.y \in Plane(D) /\ e.c \in Plane(E)
  BY EntryIs
<1>2. CASE m
  <2>1. DOMAIN e.y = D /\ DOMAIN e.c = E
    BY <1>1 DEF Plane
  <2>2. f \in [y : [D -> 0 .. MaxByte], c : [E -> 0 .. MaxByte]]
    BY <1>2, <2>1 DEF Decodings
  <2> HIDE DEF D, E
  <2> QED BY <2>2 DEF FrameLike, FrameIn, Plane, D, E
<1>3. CASE ~m /\ e.type = "I"
  <2>1. f = [y |-> e.y, c |-> e.c]
    BY <1>3 DEF Decodings
  <2> HIDE DEF D, E, e
  <2> QED BY <1>1, <2>1 DEF FrameLike, FrameIn, D, E
<1>4. CASE ~m /\ e.type # "I"
  <2>1. f = DecodedFrom(e, r)
    BY <1>4 DEF Decodings
  <2> QED BY <1>4, <2>1, DecodedLike
<1> QED BY <1>2, <1>3, <1>4

\* From the reference the encoder took, as decoded, the error grows by the quality.
LEMMA DecodedFaithful ==
  ASSUME Coding, Len(file) = Len(Frames), NEW i \in DOMAIN file, file[i].type # "I",
         NEW f, Faithful(f, CodedFrom(i))
  PROVE  Faithful(DecodedFrom(file[i], f), i)
<1> DEFINE s == CodedFrom(i)
           D == DOMAIN Frames[i].y
           E == DOMAIN Frames[i].c
           e == file[i]
           py == Predicted(Frames[s].y, e.mvs)
           fy == Predicted(f.y, e.mvs)
<1>1. /\ i \in DOMAIN Frames /\ s \in DOMAIN Frames /\ e \in InterFrom(i, s) /\ video \in Videos
      /\ video.quality \in Nat
  BY EntryIs, VideoIs DEF Coding
<1>2. FrameLike(DecodedFrom(e, f), i)
  BY <1>1, DecodedLike DEF Faithful
<1>3. SUFFICES ASSUME ~Spoilt(i) PROVE Close(DecodedFrom(e, f), i)
  BY <1>2 DEF Faithful
<1>4. Representable(i) /\ ~Spoilt(s)
  BY <1>3, ChainGrows DEF Spoilt
<1>5. /\ D = DOMAIN Frames[s].y /\ E = DOMAIN Frames[s].c
      /\ FrameLike(Frames[i], i) /\ FrameLike(Frames[s], s)
  BY <1>1, VideoIs
<1>6. /\ \A k \in D : Frames[i].y[k] - py[k] + Middle \in 0 .. MaxByte
      /\ \A k \in E : Frames[i].c[k] - Frames[s].c[k] + Middle \in 0 .. MaxByte
  BY <1>4 DEF Representable
<1>7. /\ NearPlane(e.y, Residual(Frames[i].y, py), D, video.quality)
      /\ NearPlane(e.c, Residual(Frames[i].c, Frames[s].c), E, video.quality)
      /\ e.y \in Plane(D) /\ e.c \in Plane(E)
  BY <1>1, InterIs
<1> HIDE DEF s
<1>8. FrameLike(f, s) /\ Close(f, s)
  BY <1>4 DEF Faithful, s
<1> HIDE DEF D, E, e
<1>9. /\ Frames[i].y \in Plane(D) /\ Frames[i].c \in Plane(E)
      /\ Frames[s].y \in Plane(D) /\ Frames[s].c \in Plane(E)
      /\ f.y \in Plane(D) /\ f.c \in Plane(E)
  BY <1>5, <1>8 DEF FrameLike, FrameIn, D, E
<1>10. NearPlane(f.y, Frames[s].y, D, Off(s)) /\ NearPlane(f.c, Frames[s].c, E, Off(s))
  BY <1>5, <1>8 DEF Close
<1>11. Off(s) \in Nat /\ Off(i) = Off(s) + video.quality
  <2>1. PICK n \in Nat : n = Cardinality(Chain(s)) /\ Cardinality(Chain(i)) = n + 1
    BY ChainGrows DEF s
  <2>2. PICK q \in Nat : q = video.quality
    BY <1>1
  <2>3. q * n \in Nat /\ q * (n + 1) = q * n + q
    BY <2>1, <2>2
  <2> QED BY <2>1, <2>2, <2>3 DEF Off
<1>12. fy \in Plane(D) /\ py \in Plane(D) /\ NearPlane(fy, py, D, Off(s))
  BY <1>9, <1>10, <1>11, PredictedIs, PredictedNear
<1> HIDE DEF py, fy
<1>13. NearPlane(Restored(e.y, fy), Frames[i].y, D, Off(s) + video.quality)
  BY <1>1, <1>6, <1>7, <1>9, <1>11, <1>12, RestoredNear
<1>14. NearPlane(Restored(e.c, f.c), Frames[i].c, E, Off(s) + video.quality)
  BY <1>1, <1>6, <1>7, <1>9, <1>10, <1>11, RestoredNear
<1> QED BY <1>11, <1>13, <1>14 DEF Close, DecodedFrom, D, E, fy, e


\* The header announces no more frames than there are.
LEMMA FramesAnnouncedIs ==
  ASSUME Coding
  PROVE  /\ Len(file) \in Nat /\ DOMAIN file = 1 .. Len(file)
         /\ FramesAnnounced \in Nat /\ FramesAnnounced <= Len(file)
         /\ Len(file) < CountRange => FramesAnnounced = Len(file)
<1>1. PICK l \in Nat : l = Len(file)
  BY DEF Coding
<1>2. PICK m \in Nat \ {0} : m = CountRange
  BY VideoAssumption
<1>3. l % m \in Nat /\ l % m <= l /\ (l < m => l % m = l)
  <2>1. l % m \in 0 .. m - 1
    BY <1>2
  <2>2. l \div m \in Nat /\ l % m = l - m * (l \div m) /\ m * (l \div m) \in Nat
    BY <1>2
  <2>3. l < m => l % m = l
    BY <1>2
  <2> QED BY <2>1, <2>2, <2>3
<1> QED BY <1>1, <1>2, <1>3 DEF FramesAnnounced, Coding

\* The frames a B frame may be decoded from, and when they are the one it was coded from.
LEMMA ReferencesOf ==
  ASSUME Coding, Len(file) = Len(Frames), NEW i \in 1 .. FramesAnnounced, file[i].type = "B"
  PROVE  /\ PastReference(i) \in References
         /\ FutureReference(i) \in 1 .. FramesAnnounced
         /\ file[i].dir # 1 => PastReference(i) = CodedFrom(i)
         /\ file[i].dir = 1 /\ ~LosesItsReference(i) =>
              FutureReference(i) = CodedFrom(i) /\ FutureReference(i) \in References
<1> DEFINE n == FramesAnnounced
           past == {j \in References : j < i}
           later == {j \in References : j > i}
<1>1. /\ n \in Nat /\ n <= Len(file) /\ DOMAIN file = 1 .. Len(file) /\ Len(file) \in Nat
      /\ i \in 1 .. n /\ i \in DOMAIN file
  BY FramesAnnouncedIs
<1>2. /\ video.gop \in Nat \ {0} /\ i \in Nat \ {0} /\ ~IsIFrame(i) /\ Source(i, CodedFrom(i))
  BY <1>1, EntryIs
<1>3. 1 \in past
  <2>1. IsIFrame(1)
    BY <1>2 DEF IsIFrame
  <2>2. i # 1
    BY <1>2, <2>1
  <2>3. 1 \in DOMAIN file /\ 1 \in 1 .. n /\ 1 < i
    BY <1>1, <2>2
  <2>4. file[1].type = "I"
    BY <2>1, <2>3, EntryIs
  <2> QED BY <2>3, <2>4 DEF References
<1>4. /\ past \subseteq 0 .. n /\ later \subseteq Nat
      /\ \A j \in References : j \in 1 .. n /\ file[j].type # "B"
  BY <1>1 DEF References
<1>5. PastReference(i) \in past /\ \A j \in past : PastReference(i) >= j
  <2> HIDE DEF past, n
  <2>1. Max(past) \in past /\ \A j \in past : Max(past) >= j
    BY <1>1, <1>3, <1>4, MaxIs
  <2> QED BY <2>1 DEF PastReference, past
<1>6. FutureReference(i) = IF later # {} THEN Min(later) ELSE n
  BY DEF FutureReference
<1>7. later # {} => Min(later) \in later /\ \A j \in later : Min(later) <= j
  <2> HIDE DEF later, n
  <2> QED BY <1>4, MinIs
<1>8. FutureReference(i) \in 1 .. n
  BY <1>1, <1>4, <1>6, <1>7
<1>9. ASSUME file[i].dir # 1 PROVE PastReference(i) = CodedFrom(i)
  <2> DEFINE s == CodedFrom(i)
  <2>1. s \in 1 .. i - 1 /\ file[s].type # "B" /\ \A j \in s + 1 .. i - 1 : file[j].type = "B"
    BY <1>2, <1>9 DEF Source
  <2> HIDE DEF s
  <2>2. s \in past
    BY <1>1, <2>1 DEF References
  <2>3. PastReference(i) >= s /\ PastReference(i) < i /\ PastReference(i) \in 1 .. n
        /\ file[PastReference(i)].type # "B"
    <3>1. PastReference(i) \in past /\ PastReference(i) >= s
      BY <1>5, <2>2
    <3>2. PastReference(i) \in References /\ PastReference(i) < i
      BY <3>1
    <3> QED BY <1>4, <3>1, <3>2
  <2>4. ~(PastReference(i) \in s + 1 .. i - 1)
    BY <2>1, <2>3
  <2> QED BY <1>1, <2>1, <2>3, <2>4 DEF s
<1>10. ASSUME file[i].dir = 1, ~LosesItsReference(i)
       PROVE  FutureReference(i) = CodedFrom(i) /\ FutureReference(i) \in References
  <2> DEFINE s == NextIntra(i)
  <2>1. s = CodedFrom(i) /\ s <= n /\ \A j \in i + 1 .. s - 1 : file[j].type # "P"
    <3>1. s \in Nat /\ s = CodedFrom(i)
      BY <1>2, <1>10, NextIntraIs DEF CodedFrom
    <3>2. ~(s > n)
      BY <1>10 DEF LosesItsReference
    <3>3. \A j \in i + 1 .. s - 1 : file[j].type # "P"
      BY <1>10 DEF LosesItsReference
    <3> HIDE DEF s, n
    <3> QED BY <1>1, <3>1, <3>2, <3>3
  <2>2. s \in Nat /\ s > i /\ IsIFrame(s) /\ \A j \in i + 1 .. s - 1 : ~IsIFrame(j)
    BY <1>2, NextIntraIs
  <2> HIDE DEF s
  <2>3. s \in 1 .. n /\ s \in DOMAIN file
    BY <1>1, <1>2, <2>1, <2>2
  <2>4. file[s].type = "I"
    BY <2>2, <2>3, EntryIs
  <2>5. s \in References /\ s \in later
    BY <2>2, <2>3, <2>4 DEF References
  <2>6. \A j \in i + 1 .. s - 1 : j \in DOMAIN file /\ file[j].type = "B"
    <3> TAKE j \in i + 1 .. s - 1
    <3>1. j \in DOMAIN file
      BY <1>1, <2>3
    <3> QED BY <2>1, <2>2, <3>1, EntryIs
  <2>7. \A j \in later : j \in 1 .. n /\ j > i /\ ~(j \in i + 1 .. s - 1)
    BY <1>4, <2>6
  <2>8. \A j \in later : j >= s
    BY <1>1, <1>2, <2>2, <2>7
  <2>9. Min(later) \in later /\ Min(later) <= s /\ later # {}
    BY <1>7, <2>5
  <2>10. Min(later) = s
    <3> HIDE DEF later
    <3>1. Min(later) \in Nat /\ Min(later) >= s
      BY <1>4, <2>8, <2>9
    <3> QED BY <2>2, <2>9, <3>1
  <2> QED BY <1>6, <2>1, <2>5, <2>9, <2>10 DEF s
<1>11. PastReference(i) \in References
  BY <1>5
<1> HIDE DEF n
<1> QED BY <1>8, <1>9, <1>10, <1>11 DEF n


GoodAs(f, i) == FrameLike(f, i) /\ (LosesItsReference(i) \/ Spoilt(i) \/ Close(f, i))

Finished(S) == \A j \in S : GoodAs(decoded[j], j) /\ ~VectorsCut(file[j])

\* What decoding may fail for.
MayEnd == OutOfReach \/ \E i \in 1 .. FramesAnnounced : i \in video.misread

\* The decoder's reference is the last frame it has decoded that is no B.
LastDecoded ==
  IF turn = 0 THEN last = 0
  ELSE /\ last \in 1 .. turn /\ file[last].type # "B"
       /\ \A j \in last + 1 .. turn : file[j].type = "B"

\* The invariant of the two passes.
VideoInv ==
  /\ Coding
  /\ step \in {"Encode", "References", "Bidirectional", "Done", "Failed"}
  /\ turn \in 0 .. Len(file) /\ last \in 0 .. Len(file)
  /\ DOMAIN decoded \subseteq DOMAIN file
  /\ \A i \in DOMAIN decoded : decoded[i] # NoFrame => FrameLike(decoded[i], i)
  /\ step = "Encode" => turn = 0 /\ last = 0 /\ decoded = <<>>
  /\ step = "Failed" => MayEnd
  /\ step \in {"References", "Bidirectional", "Done"} =>
       DOMAIN decoded = 1 .. FramesAnnounced /\ decoded = [i \in DOMAIN decoded |-> decoded[i]]
  /\ step = "References" =>
       /\ turn <= FramesAnnounced /\ LastDecoded
       /\ Finished({j \in 1 .. turn : file[j].type # "B"})
  /\ step = "Bidirectional" =>
       /\ turn <= FramesAnnounced
       /\ Finished({j \in 1 .. FramesAnnounced : file[j].type # "B" \/ j <= turn})
  /\ step = "Done" =>
       /\ ~(FramesAnnounced > 0 /\ video.odd)
       /\ Finished(1 .. FramesAnnounced)

\* With the same video and file, all that is said of them is the same.
LEMMA VideoStays ==
  ASSUME UNCHANGED <<video, file>>
  PROVE  /\ Frames' = Frames /\ FramesAnnounced' = FramesAnnounced
         /\ (OutOfReach' <=> OutOfReach) /\ (MayEnd' <=> MayEnd)
         /\ \A f, j : FrameLike(f, j)' <=> FrameLike(f, j)
         /\ \A j : /\ CodedFrom(j)' = CodedFrom(j) /\ ChainOf(j)' = ChainOf(j)
                   /\ Representable(j)' <=> Representable(j)
                   /\ LosesItsReference(j)' <=> LosesItsReference(j)
<1>1. /\ Frames' = Frames /\ FramesAnnounced' = FramesAnnounced
      /\ \A j : NextIntra(j)' = NextIntra(j) /\ BackTo(j)' = BackTo(j)
  BY DEF Frames, FramesAnnounced, NextIntra, BackTo
<1>2. (OutOfReach' <=> OutOfReach) /\ (MayEnd' <=> MayEnd)
  BY <1>1 DEF OutOfReach, MayEnd, VectorsCut
<1>3. \A f, j : FrameLike(f, j)' <=> FrameLike(f, j)
  BY <1>1 DEF FrameLike, FrameIn, Plane
<1>4. \A j : CodedFrom(j)' = CodedFrom(j)
  BY <1>1 DEF CodedFrom
<1>5. \A j : ChainOf(j)' = ChainOf(j)
  BY <1>1, <1>4 DEF ChainOf, BackTo
<1>6. \A j : Representable(j)' <=> Representable(j)
  BY <1>1, <1>4 DEF Representable, Predicted, Middle
<1>7. \A j : LosesItsReference(j)' <=> LosesItsReference(j)
  BY <1>1 DEF LosesItsReference
<1> QED BY <1>1, <1>2, <1>3, <1>4, <1>5, <1>6, <1>7

\* A frame that was good stays good.
LEMMA GoodStays ==
  ASSUME Coding, Coding', Len(file) = Len(Frames), UNCHANGED <<video, file>>,
         NEW j \in DOMAIN file, GoodAs(decoded'[j], j)
  PROVE  GoodAs(decoded[j], j)'
<1>1. /\ Frames' = Frames /\ (LosesItsReference(j)' <=> LosesItsReference(j))
      /\ ChainOf(j)' = ChainOf(j) /\ \A k : Representable(k)' <=> Representable(k)
  BY VideoStays
<1>2. Chain(j) = ChainOf(j)
  BY ChainClosed
<1>3. (Chain(j) = ChainOf(j))'
  <2>1. (Len(file) = Len(Frames))'
    BY <1>1
  <2>2. ASSUME Coding', (Len(file) = Len(Frames))'
        PROVE  (\A i \in DOMAIN file : Chain(i) = ChainOf(i))'
    BY <2>2, ChainClosed, PTL
  <2> QED BY <2>1, <2>2
<1>4. Chain(j)' = Chain(j)
  BY <1>1, <1>2, <1>3
<1>5. Off(j)' = Off(j) /\ (Spoilt(j)' <=> Spoilt(j))
  BY <1>1, <1>4 DEF Off, Spoilt
<1>6. FrameLike(decoded[j], j)'
  BY <1>1 DEF GoodAs, FrameLike, FrameIn, Plane
<1>7. Close(decoded'[j], j) => Close(decoded[j], j)'
  BY <1>1, <1>5 DEF Close, NearPlane, Within
<1> QED BY <1>1, <1>5, <1>6, <1>7 DEF GoodAs


\* An empty file is right.
LEMMA VideoStarts == VideoInit => VideoInv
<1> SUFFICES ASSUME VideoInit PROVE VideoInv
  OBVIOUS
<1>1. video \in Videos /\ step = "Encode" /\ file = <<>> /\ turn = 0 /\ last = 0 /\ decoded = <<>>
      /\ reference = 0
  BY DEF VideoInit
<1>2. /\ file \in Seq(AnyEntry) /\ Len(file) = 0 /\ DOMAIN file = {} /\ DOMAIN decoded = {}
  BY <1>1
<1>3. Len(Frames) \in Nat
  BY <1>1, VideoIs
<1>4. Coding
  BY <1>1, <1>2, <1>3 DEF Coding, LastReference
<1> QED BY <1>1, <1>2, <1>4 DEF VideoInv

\* encode_video: the decoder has not begun.
LEMMA VideoEncodes == VideoInv /\ (EncodeI \/ EncodeB \/ EncodeP) => VideoInv'
<1> SUFFICES ASSUME VideoInv, EncodeI \/ EncodeB \/ EncodeP PROVE VideoInv'
  OBVIOUS
<1>1. Coding'
  BY EncodingKeeps DEF VideoInv
<1>2. step = "Encode" /\ step' = step /\ turn' = turn /\ last' = last /\ decoded' = decoded
  BY DEF EncodeI, EncodeB, EncodeP, Encoding
<1>3. turn' = 0 /\ last' = 0 /\ decoded' = <<>> /\ DOMAIN decoded' = {}
  BY <1>2 DEF VideoInv
<1>4. Len(file') \in Nat
  BY <1>1 DEF Coding
<1> QED BY <1>1, <1>2, <1>3, <1>4 DEF VideoInv

\* encode_video of no groups: the remainder has no value.
LEMMA VideoNoGroup == VideoInv /\ EncodeNoGroup => VideoInv'
<1> SUFFICES ASSUME VideoInv, EncodeNoGroup PROVE VideoInv'
  OBVIOUS
<1>1. /\ step = "Encode" /\ Frames # <<>> /\ video.gop = 0 /\ step' = "Failed"
      /\ UNCHANGED <<video, reference, file, turn, last, decoded>>
  BY DEF EncodeNoGroup
<1>2. Coding'
  BY <1>1, CodingStays DEF VideoInv
<1>3. MayEnd'
  BY <1>1, VideoStays DEF OutOfReach, MayEnd
<1>4. turn' = 0 /\ last' = 0 /\ decoded' = <<>> /\ DOMAIN decoded' = {}
  BY <1>1 DEF VideoInv
<1>5. Len(file') \in Nat
  BY <1>2 DEF Coding
<1> QED BY <1>1, <1>2, <1>3, <1>4, <1>5 DEF VideoInv

\* decode_video begins: nothing is decoded.
LEMMA VideoScans == VideoInv /\ Scan => VideoInv'
<1> SUFFICES ASSUME VideoInv, Scan PROVE VideoInv'
  OBVIOUS
<1>1. /\ step = "Encode" /\ Len(file) = Len(Frames) /\ step' = "References"
      /\ decoded' = [i \in 1 .. FramesAnnounced |-> NoFrame]
      /\ UNCHANGED <<video, reference, file, turn, last>>
  BY DEF Scan
<1>2. Coding'
  BY <1>1, CodingStays DEF VideoInv
<1>3. /\ FramesAnnounced' = FramesAnnounced /\ FramesAnnounced \in Nat /\ FramesAnnounced <= Len(file)
      /\ Len(file) \in Nat /\ DOMAIN file = 1 .. Len(file)
  BY <1>1, VideoStays, FramesAnnouncedIs DEF VideoInv
<1>4. /\ DOMAIN decoded' = 1 .. FramesAnnounced' /\ \A i \in DOMAIN decoded' : decoded'[i] = NoFrame
      /\ decoded' = [i \in DOMAIN decoded' |-> decoded'[i]]
      /\ DOMAIN decoded' \subseteq DOMAIN file'
  BY <1>1, <1>3
<1>5. turn' = 0 /\ last' = 0
  BY <1>1 DEF VideoInv
<1>6. LastDecoded'
  BY <1>5 DEF LastDecoded
<1>7. {j \in 1 .. turn' : file'[j].type # "B"} = {}
  BY <1>5
<1>8. Finished({j \in 1 .. turn : file[j].type # "B"})'
  BY <1>7 DEF Finished
<1> QED BY <1>1, <1>2, <1>3, <1>4, <1>5, <1>6, <1>8 DEF VideoInv

\* What the invariant says while the passes go on.
LEMMA PassesIs ==
  ASSUME VideoInv, step \in {"References", "Bidirectional"}
  PROVE  /\ Coding /\ Len(file) = Len(Frames) /\ video \in Videos
         /\ FramesAnnounced \in Nat /\ FramesAnnounced <= Len(file) /\ Len(file) \in Nat
         /\ DOMAIN file = 1 .. Len(file) /\ DOMAIN Frames = DOMAIN file
         /\ turn \in Nat /\ turn <= FramesAnnounced
         /\ DOMAIN decoded = 1 .. FramesAnnounced /\ decoded = [i \in DOMAIN decoded |-> decoded[i]]
<1>1. Coding /\ Len(file) = Len(Frames) /\ video \in Videos
  BY DEF VideoInv, Coding
<1>2. /\ FramesAnnounced \in Nat /\ FramesAnnounced <= Len(file) /\ Len(file) \in Nat
      /\ DOMAIN file = 1 .. Len(file) /\ DOMAIN Frames = 1 .. Len(Frames)
  BY <1>1, FramesAnnouncedIs, VideoIs
<1> QED BY <1>1, <1>2 DEF VideoInv

\* A step of either pass that decodes frame i as f, and keeps the others.
LEMMA StoreKeeps ==
  ASSUME VideoInv, step \in {"References", "Bidirectional"}, Coding', UNCHANGED <<video, file>>,
         NEW i \in 1 .. FramesAnnounced, NEW f, FrameLike(f, i),
         decoded' = [decoded EXCEPT ![i] = f]
  PROVE  /\ DOMAIN decoded' = 1 .. FramesAnnounced'
         /\ decoded' = [j \in DOMAIN decoded' |-> decoded'[j]]
         /\ \A j \in DOMAIN decoded' : decoded'[j] # NoFrame => FrameLike(decoded[j], j)'
         /\ \A j \in 1 .. FramesAnnounced : j # i => decoded'[j] = decoded[j]
         /\ decoded'[i] = f
<1>1. /\ DOMAIN decoded = 1 .. FramesAnnounced /\ FramesAnnounced' = FramesAnnounced
      /\ \A j : FrameLike(f, j)' <=> FrameLike(f, j)
      /\ Frames' = Frames /\ DOMAIN file = 1 .. Len(file)
  BY VideoStays, PassesIs
<1>2. /\ DOMAIN decoded' = DOMAIN decoded /\ decoded' = [j \in DOMAIN decoded' |-> decoded'[j]]
      /\ \A j \in DOMAIN decoded : decoded'[j] = IF j = i THEN f ELSE decoded[j]
  BY <1>1
<1>3. ASSUME NEW j \in 1 .. FramesAnnounced, j # i PROVE decoded'[j] = decoded[j]
  BY <1>1, <1>2, <1>3
<1>4. ASSUME NEW j \in DOMAIN decoded', decoded'[j] # NoFrame PROVE FrameLike(decoded[j], j)'
  <2>1. FrameLike(decoded'[j], j)
    BY <1>2, <1>4 DEF VideoInv
  <2> QED BY <1>1, <2>1 DEF FrameLike, FrameIn, Plane
<1> QED BY <1>1, <1>2, <1>3, <1>4


\* A frame that is faithful is good.
LEMMA FaithfulIsGood ==
  ASSUME NEW f, NEW i, Faithful(f, i)
  PROVE  GoodAs(f, i)
BY DEF Faithful, GoodAs

\* A good frame that is no B is faithful: only a B frame can lose its reference.
LEMMA ReferenceIsFaithful ==
  ASSUME Coding, NEW i \in DOMAIN file, file[i].type # "B", NEW f, GoodAs(f, i)
  PROVE  Faithful(f, i)
<1>1. ~LosesItsReference(i)
  BY EntryIs DEF LosesItsReference
<1> QED BY <1>1 DEF Faithful, GoodAs

\* decode_video, one turn of the first pass.
LEMMA DecodeReferenceKeeps == VideoInv /\ DecodeReference => VideoInv'
<1> SUFFICES ASSUME VideoInv, DecodeReference PROVE VideoInv'
  OBVIOUS
<1> DEFINE i == turn + 1
           e == file[i]
<1>1. /\ step = "References" /\ turn < FramesAnnounced /\ UNCHANGED <<video, reference, file>>
      /\ \/ e.type # "B" /\ MayFail(i) /\ step' = "Failed" /\ UNCHANGED <<turn, last, decoded>>
         \/ e.type = "B" /\ turn' = i /\ UNCHANGED <<step, last, decoded>>
         \/ /\ e.type # "B" /\ ~VectorsCut(e)
            /\ \E f \in Decodings(e, decoded[last], i \in video.misread) :
                 decoded' = [decoded EXCEPT ![i] = f]
            /\ last' = i /\ turn' = i /\ UNCHANGED step
  BY DEF DecodeReference
<1>2. /\ Coding /\ Len(file) = Len(Frames) /\ video \in Videos
      /\ FramesAnnounced \in Nat /\ FramesAnnounced <= Len(file) /\ Len(file) \in Nat
      /\ DOMAIN file = 1 .. Len(file) /\ DOMAIN Frames = DOMAIN file
      /\ turn \in Nat /\ turn <= FramesAnnounced
      /\ DOMAIN decoded = 1 .. FramesAnnounced /\ decoded = [j \in DOMAIN decoded |-> decoded[j]]
  BY <1>1, PassesIs
<1>3. Coding'
  BY <1>1, <1>2, CodingStays
<1>4. /\ Frames' = Frames /\ FramesAnnounced' = FramesAnnounced /\ (MayEnd' <=> MayEnd)
      /\ \A f, j : FrameLike(f, j)' <=> FrameLike(f, j)
      /\ \A x : VectorsCut(x)' <=> VectorsCut(x)
  BY <1>1, VideoStays DEF VectorsCut
<1>5. i \in 1 .. FramesAnnounced /\ i \in DOMAIN file /\ i \in Nat
  BY <1>1, <1>2
<1>6. /\ LastDecoded /\ last \in 0 .. Len(file)
      /\ Finished({j \in 1 .. turn : file[j].type # "B"})
      /\ \A j \in DOMAIN decoded : decoded[j] # NoFrame => FrameLike(decoded[j], j)
  BY <1>1 DEF VideoInv
<1> HIDE DEF i, e
<1>7. CASE /\ decoded' = decoded /\ last' = last
           /\ \/ MayFail(i) /\ step' = "Failed" /\ turn' = turn
              \/ e.type = "B" /\ turn' = i /\ step' = step
  <2>1. \A j \in DOMAIN decoded' : decoded'[j] # NoFrame => FrameLike(decoded[j], j)'
    BY <1>4, <1>6, <1>7 DEF FrameLike, FrameIn, Plane
  <2>2. DOMAIN decoded' = 1 .. FramesAnnounced' /\ decoded' = [j \in DOMAIN decoded' |-> decoded'[j]]
        /\ DOMAIN decoded' \subseteq DOMAIN file' /\ last' \in 0 .. Len(file') /\ turn' \in 0 .. Len(file')
        /\ turn' \in Nat /\ turn' <= FramesAnnounced'
    BY <1>1, <1>2, <1>4, <1>5, <1>6, <1>7
  <2>3. CASE step' = "Failed"
    <3>1. VectorsCut(e) \/ i \in video.misread
      BY <1>1, <1>7, <2>3 DEF MayFail, e
    <3>2. MayEnd
      <4>1. Frames # <<>>
        BY <1>2, <1>5
      <4> QED BY <1>5, <3>1, <4>1 DEF OutOfReach, MayEnd, e
    <3> QED BY <1>3, <1>4, <2>1, <2>2, <2>3, <3>2 DEF VideoInv
  <2>4. CASE e.type = "B" /\ turn' = i /\ step' = step
    <3>1. LastDecoded'
      <4>1. turn # 0
        <5> SUFFICES ASSUME turn = 0 PROVE FALSE
          OBVIOUS
        <5>1. i = 1
          BY DEF i
        <5>2. video.gop \in Nat \ {0} /\ (file[i].type = "I" <=> IsIFrame(i))
          BY <1>2, <1>5, EntryIs
        <5>3. IsIFrame(1)
          BY <5>2 DEF IsIFrame
        <5> QED BY <2>4, <5>1, <5>2, <5>3 DEF e
      <4>2. last \in 1 .. turn /\ file[last].type # "B" /\ \A j \in last + 1 .. turn : file[j].type = "B"
        BY <1>6, <4>1 DEF LastDecoded
      <4>3. \A j \in last + 1 .. i : j \in last + 1 .. turn \/ j = i
        BY <1>2, <4>2 DEF i
      <4>4. last \in 1 .. i /\ i # 0
        BY <1>2, <4>2 DEF i
      <4> QED BY <1>1, <1>7, <2>4, <4>2, <4>3, <4>4 DEF LastDecoded, e
    <3>2. ASSUME NEW j \in {k \in 1 .. turn' : file'[k].type # "B"}
          PROVE  GoodAs(decoded[j], j)' /\ ~VectorsCut(file[j])'
      <4>1. j \in 1 .. i /\ file[j].type # "B"
        BY <1>1, <2>4
      <4>2. j \in 1 .. turn /\ j \in DOMAIN file
        BY <1>2, <1>5, <2>4, <4>1 DEF i, e
      <4>3. GoodAs(decoded[j], j) /\ ~VectorsCut(file[j])
        BY <1>6, <4>1, <4>2 DEF Finished
      <4> QED BY <1>1, <1>2, <1>3, <1>7, <4>2, <4>3, GoodStays DEF VectorsCut
    <3>3. Finished({j \in 1 .. turn : file[j].type # "B"})'
      BY <3>2 DEF Finished
    <3> QED BY <1>1, <1>3, <1>4, <2>1, <2>2, <2>4, <3>1, <3>3 DEF VideoInv
  <2> QED BY <1>7, <2>3, <2>4
<1>8. CASE /\ e.type # "B" /\ ~VectorsCut(e)
           /\ \E g \in Decodings(e, decoded[last], i \in video.misread) :
                decoded' = [decoded EXCEPT ![i] = g]
           /\ last' = i /\ turn' = i /\ step' = step
  <2> PICK f \in Decodings(e, decoded[last], i \in video.misread) : decoded' = [decoded EXCEPT ![i] = f]
    BY <1>8
  <2>1. Faithful(f, i)
    <3>1. CASE e.type = "I"
      <4>1. FrameLike(f, i)
        BY <1>2, <1>5, <3>1, DecodingLike DEF e
      <4>2. CASE i \in video.misread
        BY <1>2, <1>5, <4>1, <4>2, ChainGrows DEF Faithful, Spoilt
      <4>3. CASE i \notin video.misread
        <5>1. f = [y |-> e.y, c |-> e.c]
          BY <3>1, <4>3 DEF Decodings
        <5> QED BY <1>2, <1>5, <3>1, <5>1, IntraFaithful DEF e
      <4> QED BY <4>2, <4>3
    <3>2. CASE e.type # "I"
      <4> DEFINE s == CodedFrom(i)
      <4>1. /\ s \in DOMAIN file /\ file[s].type # "B" /\ Source(i, s) /\ e.dir # 1
        BY <1>2, <1>5, <1>8, <3>2, EntryIs, CodedFromIs DEF e
      <4>2. s \in 1 .. i - 1 /\ \A j \in s + 1 .. i - 1 : file[j].type = "B"
        BY <4>1 DEF Source, e
      <4> HIDE DEF s
      <4>3. i - 1 = turn /\ turn # 0
        BY <1>2, <4>2 DEF i
      <4>4. last \in 1 .. turn /\ file[last].type # "B" /\ \A j \in last + 1 .. turn : file[j].type = "B"
        BY <1>6, <4>3 DEF LastDecoded
      <4>5. ~(last \in s + 1 .. turn) /\ ~(s \in last + 1 .. turn)
        BY <4>1, <4>2, <4>3, <4>4
      <4>6. last = s
        BY <1>2, <4>2, <4>3, <4>4, <4>5
      <4>7. GoodAs(decoded[s], s)
        BY <1>6, <4>4, <4>6 DEF Finished
      <4>8. Faithful(decoded[s], s) /\ s \in DOMAIN Frames
        BY <1>2, <4>1, <4>7, ReferenceIsFaithful
      <4>9. FrameLike(f, i)
        BY <1>2, <1>5, <4>6, <4>8, DecodingLike DEF Faithful, e
      <4>10. CASE i \in video.misread
        BY <1>2, <1>5, <4>9, <4>10, ChainGrows DEF Faithful, Spoilt
      <4>11. CASE i \notin video.misread
        <5>1. f = DecodedFrom(e, decoded[s])
          BY <3>2, <4>6, <4>11 DEF Decodings
        <5> QED BY <1>2, <1>5, <3>2, <4>8, <5>1, DecodedFaithful DEF s, e
      <4> QED BY <4>10, <4>11
    <3> QED BY <3>1, <3>2
  <2>2. FrameLike(f, i) /\ GoodAs(f, i)
    BY <2>1, FaithfulIsGood DEF Faithful
  <2>3. decoded' = [decoded EXCEPT ![i] = f]
    OBVIOUS
  <2>4. /\ DOMAIN decoded' = 1 .. FramesAnnounced'
        /\ decoded' = [j \in DOMAIN decoded' |-> decoded'[j]]
        /\ \A j \in DOMAIN decoded' : decoded'[j] # NoFrame => FrameLike(decoded[j], j)'
        /\ \A j \in 1 .. FramesAnnounced : j # i => decoded'[j] = decoded[j]
        /\ decoded'[i] = f
    BY <1>1, <1>3, <1>5, <2>2, <2>3, StoreKeeps
  <2>5. /\ DOMAIN decoded' \subseteq DOMAIN file' /\ last' \in 0 .. Len(file') /\ turn' \in 0 .. Len(file')
        /\ turn' \in Nat /\ turn' <= FramesAnnounced'
    BY <1>1, <1>2, <1>4, <1>5, <1>8, <2>4
  <2>6. LastDecoded'
    <3>1. \A j \in i + 1 .. i : FALSE
      BY <1>5
    <3>2. i # 0 /\ i \in 1 .. i
      BY <1>5
    <3> QED BY <1>1, <1>8, <3>1, <3>2 DEF LastDecoded, e
  <2>7. ASSUME NEW j \in {k \in 1 .. turn' : file'[k].type # "B"}
        PROVE  GoodAs(decoded[j], j)' /\ ~VectorsCut(file[j])'
    <3>1. j \in 1 .. i /\ file[j].type # "B" /\ j \in DOMAIN file /\ j \in 1 .. FramesAnnounced
      BY <1>1, <1>2, <1>5, <1>8
    <3>2. GoodAs(decoded'[j], j) /\ ~VectorsCut(file[j])
      <4>1. CASE j = i
        BY <1>8, <2>2, <2>4, <4>1 DEF e
      <4>2. CASE j # i
        <5>1. j \in 1 .. turn
          BY <1>2, <3>1, <4>2 DEF i
        <5> QED BY <1>6, <2>4, <3>1, <4>2, <5>1 DEF Finished
      <4> QED BY <4>1, <4>2
    <3> QED BY <1>1, <1>2, <1>3, <3>1, <3>2, GoodStays DEF VectorsCut
  <2>8. Finished({j \in 1 .. turn : file[j].type # "B"})'
    BY <2>7 DEF Finished
  <2> QED BY <1>1, <1>3, <1>4, <1>8, <2>4, <2>5, <2>6, <2>8 DEF VideoInv
<1> QED BY <1>1, <1>7, <1>8 DEF i


\* decode_video between its passes.
LEMMA SecondPassKeeps == VideoInv /\ SecondPass => VideoInv'
<1> SUFFICES ASSUME VideoInv, SecondPass PROVE VideoInv'
  OBVIOUS
<1>1. /\ step = "References" /\ turn = FramesAnnounced /\ step' = "Bidirectional" /\ turn' = 0
      /\ UNCHANGED <<video, reference, file, last, decoded>>
  BY DEF SecondPass
<1>2. /\ Coding /\ Len(file) = Len(Frames) /\ Len(file) \in Nat /\ DOMAIN file = 1 .. Len(file)
      /\ FramesAnnounced \in Nat /\ FramesAnnounced <= Len(file)
      /\ DOMAIN decoded = 1 .. FramesAnnounced /\ decoded = [j \in DOMAIN decoded |-> decoded[j]]
  BY <1>1, PassesIs
<1>3. Coding'
  BY <1>1, <1>2, CodingStays
<1>4. Frames' = Frames /\ FramesAnnounced' = FramesAnnounced
  BY <1>1, VideoStays
<1>5. \A j \in DOMAIN decoded' : decoded'[j] # NoFrame => FrameLike(decoded[j], j)'
  BY <1>1, <1>4 DEF VideoInv, FrameLike, FrameIn, Plane
<1>6. ASSUME NEW j \in {k \in 1 .. FramesAnnounced' : file'[k].type # "B" \/ k <= turn'}
      PROVE  GoodAs(decoded[j], j)' /\ ~VectorsCut(file[j])'
  <2>1. j \in 1 .. turn /\ file[j].type # "B" /\ j \in DOMAIN file
    BY <1>1, <1>2, <1>4
  <2>2. GoodAs(decoded[j], j) /\ ~VectorsCut(file[j])
    BY <1>1, <2>1 DEF VideoInv, Finished
  <2> QED BY <1>1, <1>2, <1>3, <2>1, <2>2, GoodStays DEF VectorsCut
<1>7. Finished({j \in 1 .. FramesAnnounced : file[j].type # "B" \/ j <= turn})'
  BY <1>6 DEF Finished
<1>8. /\ DOMAIN decoded' \subseteq DOMAIN file' /\ last' \in 0 .. Len(file') /\ turn' \in 0 .. Len(file')
      /\ turn' <= FramesAnnounced'
  BY <1>1, <1>2, <1>4 DEF VideoInv
<1> QED BY <1>1, <1>2, <1>3, <1>4, <1>5, <1>7, <1>8 DEF VideoInv

\* The frame a B frame is decoded from.
TakenFor(i) ==
  IF file[i].dir = 1 /\ decoded[FutureReference(i)] # NoFrame
    THEN FutureReference(i) ELSE PastReference(i)

\* Decoded from it, a B frame is good: it has a frame to be decoded from, and the one it was
\* coded from unless it loses it.
LEMMA BidirectionalGood ==
  ASSUME VideoInv, step = "Bidirectional", NEW i \in 1 .. FramesAnnounced, file[i].type = "B"
  PROVE  \A f \in Decodings(file[i], decoded[TakenFor(i)], i \in video.misread) : GoodAs(f, i)
<1> DEFINE s == TakenFor(i)
<1> TAKE f \in Decodings(file[i], decoded[s], i \in video.misread)
<1>1. /\ Coding /\ Len(file) = Len(Frames) /\ video \in Videos /\ DOMAIN file = 1 .. Len(file)
      /\ FramesAnnounced \in Nat /\ FramesAnnounced <= Len(file) /\ Len(file) \in Nat
      /\ DOMAIN Frames = DOMAIN file /\ DOMAIN decoded = 1 .. FramesAnnounced /\ i \in DOMAIN file
  BY PassesIs
<1>2. /\ PastReference(i) \in References
      /\ FutureReference(i) \in 1 .. FramesAnnounced
      /\ file[i].dir # 1 => PastReference(i) = CodedFrom(i)
      /\ file[i].dir = 1 /\ ~LosesItsReference(i) =>
           FutureReference(i) = CodedFrom(i) /\ FutureReference(i) \in References
  BY <1>1, ReferencesOf
<1>3. ASSUME NEW r \in References
      PROVE  /\ r \in DOMAIN Frames /\ Faithful(decoded[r], r)
             /\ FrameLike(decoded[r], r) /\ decoded[r] # NoFrame
  <2>1. r \in 1 .. FramesAnnounced /\ file[r].type # "B" /\ r \in DOMAIN file
    BY <1>1 DEF References
  <2>2. GoodAs(decoded[r], r)
    BY <2>1 DEF VideoInv, Finished
  <2>3. Faithful(decoded[r], r)
    BY <1>1, <2>1, <2>2, ReferenceIsFaithful
  <2> QED BY <1>1, <2>1, <2>3, VideoIs DEF Faithful
<1>4. s \in DOMAIN Frames /\ FrameLike(decoded[s], s)
  <2>1. CASE s = PastReference(i)
    <3> HIDE DEF s
    <3> QED BY <1>2, <1>3, <2>1
  <2>2. CASE s = FutureReference(i) /\ decoded[FutureReference(i)] # NoFrame
    <3> HIDE DEF s
    <3>1. FutureReference(i) \in DOMAIN decoded /\ FutureReference(i) \in DOMAIN Frames
      BY <1>1, <1>2
    <3> QED BY <2>2, <3>1 DEF VideoInv
  <2> QED BY <2>1, <2>2 DEF TakenFor
<1>5. FrameLike(f, i)
  <2> HIDE DEF s
  <2> QED BY <1>1, <1>4, DecodingLike
<1>6. CASE LosesItsReference(i)
  BY <1>5, <1>6 DEF GoodAs
<1>7. CASE i \in video.misread
  BY <1>1, <1>5, <1>7, ChainGrows DEF GoodAs, Spoilt
<1>8. CASE ~LosesItsReference(i) /\ i \notin video.misread
  <2>1. s = CodedFrom(i) /\ s \in References
    <3>1. CASE file[i].dir = 1
      BY <1>2, <1>3, <1>8, <3>1 DEF TakenFor
    <3>2. CASE file[i].dir # 1
      BY <1>2, <3>2 DEF TakenFor
    <3> QED BY <3>1, <3>2
  <2> HIDE DEF s
  <2>2. Faithful(decoded[s], s)
    BY <1>3, <2>1
  <2>3. f = DecodedFrom(file[i], decoded[s])
    BY <1>8 DEF Decodings, s
  <2>4. Faithful(f, i)
    BY <1>1, <2>1, <2>2, <2>3, DecodedFaithful
  <2> QED BY <2>4, FaithfulIsGood
<1> QED BY <1>6, <1>7, <1>8

\* decode_video, one turn of the second pass.
LEMMA DecodeBKeeps == VideoInv /\ DecodeB => VideoInv'
<1> SUFFICES ASSUME VideoInv, DecodeB PROVE VideoInv'
  OBVIOUS
<1> DEFINE i == turn + 1
           e == file[i]
           F == Decodings(e, decoded[TakenFor(i)], i \in video.misread)
<1>1. /\ step = "Bidirectional" /\ turn < FramesAnnounced /\ UNCHANGED <<video, reference, file, last>>
      /\ \/ e.type = "B" /\ MayFail(i) /\ step' = "Failed" /\ UNCHANGED <<turn, decoded>>
         \/ e.type # "B" /\ turn' = i /\ UNCHANGED <<step, decoded>>
         \/ /\ e.type = "B" /\ ~VectorsCut(e)
            /\ \E f \in F : decoded' = [decoded EXCEPT ![i] = f]
            /\ turn' = i /\ UNCHANGED step
  BY DEF DecodeB, TakenFor
<1>2. /\ Coding /\ Len(file) = Len(Frames) /\ video \in Videos
      /\ FramesAnnounced \in Nat /\ FramesAnnounced <= Len(file) /\ Len(file) \in Nat
      /\ DOMAIN file = 1 .. Len(file) /\ DOMAIN Frames = DOMAIN file
      /\ turn \in Nat /\ turn <= FramesAnnounced
      /\ DOMAIN decoded = 1 .. FramesAnnounced /\ decoded = [j \in DOMAIN decoded |-> decoded[j]]
  BY <1>1, PassesIs
<1>3. Coding'
  BY <1>1, <1>2, CodingStays
<1>4. /\ Frames' = Frames /\ FramesAnnounced' = FramesAnnounced /\ (MayEnd' <=> MayEnd)
      /\ \A x : VectorsCut(x)' <=> VectorsCut(x)
  BY <1>1, VideoStays DEF VectorsCut
<1>5. i \in 1 .. FramesAnnounced /\ i \in DOMAIN file /\ i \in Nat
  BY <1>1, <1>2
<1>6. /\ last \in 0 .. Len(file)
      /\ Finished({j \in 1 .. FramesAnnounced : file[j].type # "B" \/ j <= turn})
      /\ \A j \in DOMAIN decoded : decoded[j] # NoFrame => FrameLike(decoded[j], j)
  BY <1>1 DEF VideoInv
<1>7. e.type = "B" => \A f \in F : GoodAs(f, i)
  BY <1>1, <1>5, BidirectionalGood
<1>8. i = turn + 1
  OBVIOUS
<1> HIDE DEF i, e, F
<1>9. CASE /\ decoded' = decoded
           /\ \/ e.type = "B" /\ MayFail(i) /\ step' = "Failed" /\ turn' = turn
              \/ e.type # "B" /\ turn' = i /\ step' = step
  <2>1. \A j \in DOMAIN decoded' : decoded'[j] # NoFrame => FrameLike(decoded[j], j)'
    BY <1>4, <1>6, <1>9 DEF FrameLike, FrameIn, Plane
  <2>2. DOMAIN decoded' = 1 .. FramesAnnounced' /\ decoded' = [j \in DOMAIN decoded' |-> decoded'[j]]
        /\ DOMAIN decoded' \subseteq DOMAIN file' /\ last' \in 0 .. Len(file') /\ turn' \in 0 .. Len(file')
        /\ turn' <= FramesAnnounced'
    BY <1>1, <1>2, <1>4, <1>5, <1>6, <1>9
  <2>3. CASE step' = "Failed"
    <3>1. VectorsCut(e) \/ i \in video.misread
      BY <1>1, <1>9, <2>3 DEF MayFail, e
    <3>2. MayEnd
      <4>1. Frames # <<>>
        BY <1>2, <1>5
      <4> QED BY <1>5, <3>1, <4>1 DEF OutOfReach, MayEnd, e
    <3> QED BY <1>3, <1>4, <2>1, <2>2, <2>3, <3>2 DEF VideoInv
  <2>4. CASE e.type # "B" /\ turn' = i /\ step' = step
    <3>1. ASSUME NEW j \in {k \in 1 .. FramesAnnounced' : file'[k].type # "B" \/ k <= turn'}
          PROVE  GoodAs(decoded[j], j)' /\ ~VectorsCut(file[j])'
      <4>1. j \in 1 .. FramesAnnounced /\ j \in DOMAIN file /\ (file[j].type # "B" \/ j <= i)
        BY <1>1, <1>2, <1>4, <2>4
      <4>2. file[j].type # "B" \/ j <= turn
        BY <1>2, <1>8, <2>4, <4>1 DEF e
      <4>3. GoodAs(decoded[j], j) /\ ~VectorsCut(file[j])
        BY <1>6, <4>1, <4>2 DEF Finished
      <4> QED BY <1>1, <1>2, <1>3, <1>9, <4>1, <4>3, GoodStays DEF VectorsCut
    <3>2. Finished({j \in 1 .. FramesAnnounced : file[j].type # "B" \/ j <= turn})'
      BY <3>1 DEF Finished
    <3> QED BY <1>1, <1>3, <1>4, <2>1, <2>2, <2>4, <3>2 DEF VideoInv
  <2> QED BY <1>9, <2>3, <2>4
<1>10. CASE /\ e.type = "B" /\ ~VectorsCut(e) /\ \E f \in F : decoded' = [decoded EXCEPT ![i] = f]
            /\ turn' = i /\ step' = step
  <2> PICK f \in F : decoded' = [decoded EXCEPT ![i] = f]
    BY <1>10
  <2>1. FrameLike(f, i) /\ GoodAs(f, i)
    BY <1>7, <1>10 DEF GoodAs
  <2>2. /\ DOMAIN decoded' = 1 .. FramesAnnounced'
        /\ decoded' = [j \in DOMAIN decoded' |-> decoded'[j]]
        /\ \A j \in DOMAIN decoded' : decoded'[j] # NoFrame => FrameLike(decoded[j], j)'
        /\ \A j \in 1 .. FramesAnnounced : j # i => decoded'[j] = decoded[j]
        /\ decoded'[i] = f
    BY <1>1, <1>3, <1>5, <1>10, <2>1, StoreKeeps
  <2>3. /\ DOMAIN decoded' \subseteq DOMAIN file' /\ last' \in 0 .. Len(file') /\ turn' \in 0 .. Len(file')
        /\ turn' <= FramesAnnounced'
    BY <1>1, <1>2, <1>4, <1>5, <1>6, <1>10, <2>2
  <2>4. ASSUME NEW j \in {k \in 1 .. FramesAnnounced' : file'[k].type # "B" \/ k <= turn'}
        PROVE  GoodAs(decoded[j], j)' /\ ~VectorsCut(file[j])'
    <3>1. j \in 1 .. FramesAnnounced /\ j \in DOMAIN file /\ (file[j].type # "B" \/ j <= i)
      BY <1>1, <1>2, <1>4, <1>10
    <3>2. GoodAs(decoded'[j], j) /\ ~VectorsCut(file[j])
      <4>1. CASE j = i
        BY <1>10, <2>1, <2>2, <4>1 DEF e
      <4>2. CASE j # i
        <5>1. file[j].type # "B" \/ j <= turn
          BY <1>2, <1>8, <3>1, <4>2
        <5> QED BY <1>6, <2>2, <3>1, <4>2, <5>1 DEF Finished
      <4> QED BY <4>1, <4>2
    <3> QED BY <1>1, <1>2, <1>3, <3>1, <3>2, GoodStays DEF VectorsCut
  <2>5. Finished({j \in 1 .. FramesAnnounced : file[j].type # "B" \/ j <= turn})'
    BY <2>4 DEF Finished
  <2> QED BY <1>1, <1>3, <1>4, <1>10, <2>2, <2>3, <2>5 DEF VideoInv
<1> QED BY <1>1, <1>9, <1>10


\* decode_video at the end of its passes.
LEMMA ToRgbKeeps == VideoInv /\ ToRgb => VideoInv'
<1> SUFFICES ASSUME VideoInv, ToRgb PROVE VideoInv'
  OBVIOUS
<1>1. /\ step = "Bidirectional" /\ turn = FramesAnnounced
      /\ step' = IF FramesAnnounced > 0 /\ (video.odd \/ \E i \in DOMAIN decoded : decoded[i] = NoFrame)
                   THEN "Failed" ELSE "Done"
      /\ UNCHANGED <<video, reference, file, turn, last, decoded>>
  BY DEF ToRgb
<1>2. /\ Coding /\ Len(file) = Len(Frames) /\ Len(file) \in Nat /\ DOMAIN file = 1 .. Len(file)
      /\ FramesAnnounced \in Nat /\ FramesAnnounced <= Len(file) /\ video \in Videos
      /\ DOMAIN Frames = DOMAIN file
      /\ DOMAIN decoded = 1 .. FramesAnnounced /\ decoded = [j \in DOMAIN decoded |-> decoded[j]]
  BY <1>1, PassesIs
<1>3. Coding'
  BY <1>1, <1>2, CodingStays
<1>4. /\ Frames' = Frames /\ FramesAnnounced' = FramesAnnounced /\ (MayEnd' <=> MayEnd)
  BY <1>1, VideoStays
<1>5. \A j \in DOMAIN decoded' : decoded'[j] # NoFrame => FrameLike(decoded[j], j)'
  BY <1>1, <1>4 DEF VideoInv, FrameLike, FrameIn, Plane
<1>6. ASSUME NEW j \in 1 .. FramesAnnounced
      PROVE  GoodAs(decoded[j], j) /\ ~VectorsCut(file[j]) /\ j \in DOMAIN file /\ decoded[j] # NoFrame
  <2>1. j <= turn /\ j \in DOMAIN file /\ j \in DOMAIN Frames
    BY <1>1, <1>2
  <2>2. GoodAs(decoded[j], j) /\ ~VectorsCut(file[j])
    BY <1>1, <2>1 DEF VideoInv, Finished
  <2> QED BY <1>2, <2>1, <2>2, VideoIs DEF GoodAs
<1>7. ASSUME NEW j \in 1 .. FramesAnnounced'
      PROVE  GoodAs(decoded[j], j)' /\ ~VectorsCut(file[j])'
  BY <1>1, <1>2, <1>3, <1>4, <1>6, GoodStays DEF VectorsCut
<1>8. Finished(1 .. FramesAnnounced)'
  BY <1>7 DEF Finished
<1>9. /\ DOMAIN decoded' \subseteq DOMAIN file' /\ last' \in 0 .. Len(file') /\ turn' \in 0 .. Len(file')
  BY <1>1, <1>2, <1>4 DEF VideoInv
<1>10. step' = IF FramesAnnounced > 0 /\ video.odd THEN "Failed" ELSE "Done"
  BY <1>1, <1>2, <1>6
<1>11. CASE FramesAnnounced > 0 /\ video.odd
  <2>1. MayEnd
    <3>1. Frames # <<>>
      BY <1>2, <1>11
    <3> QED BY <1>11, <3>1 DEF OutOfReach, MayEnd
  <2> QED BY <1>1, <1>3, <1>4, <1>5, <1>9, <1>10, <1>11, <2>1 DEF VideoInv
<1>12. CASE ~(FramesAnnounced > 0 /\ video.odd)
  BY <1>1, <1>2, <1>3, <1>4, <1>5, <1>8, <1>9, <1>10, <1>12 DEF VideoInv
<1> QED BY <1>11, <1>12

\* Every step of the video codec keeps it.
LEMMA VideoSteps == VideoInv /\ [VideoNext]_videoVars => VideoInv'
<1> SUFFICES ASSUME VideoInv, [VideoNext]_videoVars PROVE VideoInv'
  OBVIOUS
<1>1. CASE UNCHANGED videoVars
  <2>1. /\ UNCHANGED <<video, step, reference, file, turn, last, decoded>>
    BY <1>1 DEF videoVars
  <2>2. Coding'
    BY <2>1, CodingStays DEF VideoInv, Coding
  <2>3. /\ Frames' = Frames /\ FramesAnnounced' = FramesAnnounced /\ (MayEnd' <=> MayEnd)
        /\ \A x : VectorsCut(x)' <=> VectorsCut(x)
    BY <2>1, VideoStays DEF VectorsCut
  <2>4. \A j \in DOMAIN decoded' : decoded'[j] # NoFrame => FrameLike(decoded[j], j)'
    BY <2>1, <2>3 DEF VideoInv, FrameLike, FrameIn, Plane
  <2>5. LastDecoded' <=> LastDecoded
    BY <2>1 DEF LastDecoded
  <2>6. ASSUME step \in {"References", "Bidirectional", "Done"}, NEW j \in 1 .. FramesAnnounced,
               GoodAs(decoded[j], j)
        PROVE  GoodAs(decoded[j], j)'
    <3>1. Coding /\ Len(file) = Len(Frames)
      BY <2>6 DEF VideoInv, Coding
    <3>2. j \in DOMAIN file
      BY <2>6, <3>1, FramesAnnouncedIs
    <3> QED BY <2>1, <2>2, <2>6, <3>1, <3>2, GoodStays
  <2>7. ASSUME step = "References" PROVE Finished({j \in 1 .. turn : file[j].type # "B"})'
    <3>1. turn \in Nat /\ turn <= FramesAnnounced /\ FramesAnnounced \in Nat
      BY <2>7, PassesIs
    <3>2. ASSUME NEW j \in {k \in 1 .. turn' : file'[k].type # "B"}
          PROVE  GoodAs(decoded[j], j)' /\ ~VectorsCut(file[j])'
      <4>1. j \in {k \in 1 .. turn : file[k].type # "B"} /\ j \in 1 .. FramesAnnounced
        BY <2>1, <3>1
      <4>2. GoodAs(decoded[j], j) /\ ~VectorsCut(file[j])
        BY <2>7, <4>1 DEF VideoInv, Finished
      <4> QED BY <2>1, <2>6, <2>7, <4>1, <4>2 DEF VectorsCut
    <3> QED BY <3>2 DEF Finished
  <2>8. ASSUME step = "Bidirectional"
        PROVE  Finished({j \in 1 .. FramesAnnounced : file[j].type # "B" \/ j <= turn})'
    <3>1. ASSUME NEW j \in {k \in 1 .. FramesAnnounced' : file'[k].type # "B" \/ k <= turn'}
          PROVE  GoodAs(decoded[j], j)' /\ ~VectorsCut(file[j])'
      <4>1. j \in {k \in 1 .. FramesAnnounced : file[k].type # "B" \/ k <= turn}
            /\ j \in 1 .. FramesAnnounced
        BY <2>1, <2>3
      <4>2. GoodAs(decoded[j], j) /\ ~VectorsCut(file[j])
        BY <2>8, <4>1 DEF VideoInv, Finished
      <4> QED BY <2>1, <2>6, <2>8, <4>1, <4>2 DEF VectorsCut
    <3> QED BY <3>1 DEF Finished
  <2>9. ASSUME step = "Done" PROVE Finished(1 .. FramesAnnounced)'
    <3>1. ASSUME NEW j \in 1 .. FramesAnnounced'
          PROVE  GoodAs(decoded[j], j)' /\ ~VectorsCut(file[j])'
      <4>1. j \in 1 .. FramesAnnounced
        BY <2>1, <2>3
      <4>2. GoodAs(decoded[j], j) /\ ~VectorsCut(file[j])
        BY <2>9, <4>1 DEF VideoInv, Finished
      <4> QED BY <2>1, <2>6, <2>9, <4>1, <4>2 DEF VectorsCut
    <3> QED BY <3>1 DEF Finished
  <2> QED BY <2>1, <2>2, <2>3, <2>4, <2>5, <2>7, <2>8, <2>9 DEF VideoInv
<1>2. CASE VideoNext
  BY <1>2, VideoEncodes, VideoNoGroup, VideoScans, DecodeReferenceKeeps, SecondPassKeeps,
     DecodeBKeeps, ToRgbKeeps DEF VideoNext
<1> QED BY <1>1, <1>2

\* So it always holds.
LEMMA VideoInvariant == VideoSpec => []VideoInv
<1> QED BY VideoStarts, VideoSteps, PTL DEF VideoSpec

\* video.rs: every variable has its type, and every frame decoded the planes of its original.
THEOREM VideoTypes == VideoSpec => []VideoTypeOK
<1>1. VideoInv => VideoTypeOK
  <2> SUFFICES ASSUME VideoInv PROVE VideoTypeOK
    OBVIOUS
  <2>1. /\ Coding /\ video \in Videos /\ Len(file) \in Nat /\ Len(file) <= Len(Frames)
        /\ turn \in 0 .. Len(file) /\ last \in 0 .. Len(file)
    BY DEF VideoInv, Coding
  <2>2. reference <= Len(file)
    <3>1. CASE file = <<>>
      BY <2>1, <3>1 DEF Coding, LastReference
    <3>2. CASE file # <<>>
      <4>1. reference \in 1 .. Len(file)
        BY <2>1, <3>2 DEF Coding, LastReference
      <4> QED BY <2>1, <4>1
    <3> QED BY <3>1, <3>2
  <2>3. ASSUME NEW i \in DOMAIN decoded, decoded[i] # NoFrame
        PROVE  /\ decoded[i].y \in [DOMAIN Frames[i].y -> 0 .. MaxByte]
               /\ decoded[i].c \in [DOMAIN Frames[i].c -> 0 .. MaxByte]
    <3>1. FrameLike(decoded[i], i)
      BY <2>3 DEF VideoInv
    <3> QED BY <3>1 DEF FrameLike, FrameIn, Plane
  <2> QED BY <2>1, <2>2, <2>3 DEF VideoInv, VideoTypeOK
<1> QED BY <1>1, VideoInvariant, PTL

\* encode_video and decode_video: they fail only out of reach, or where the image codec misreads
\* a plane, and otherwise decode every frame the header announces; no order of I, P and B frames
\* leaves one without its reference.
THEOREM EveryFrameIsDecoded == VideoSpec => []DecodedToTheEnd
<1>1. VideoInv => DecodedToTheEnd
  <2> SUFFICES ASSUME VideoInv PROVE DecodedToTheEnd
    OBVIOUS
  <2>1. step = "Failed" => OutOfReach \/ \E i \in 1 .. FramesAnnounced : i \in video.misread
    BY DEF VideoInv, MayEnd
  <2>2. ASSUME step = "Done"
        PROVE  /\ ~OutOfReach
               /\ Len(Frames) < CountRange => Len(decoded) = Len(Frames)
               /\ \A i \in DOMAIN decoded : decoded[i] # NoFrame
    <3>1. /\ Coding /\ Len(file) = Len(Frames) /\ video \in Videos
          /\ FramesAnnounced \in Nat /\ FramesAnnounced <= Len(file) /\ Len(file) \in Nat
          /\ DOMAIN Frames = 1 .. Len(Frames)
          /\ Len(file) < CountRange => FramesAnnounced = Len(file)
      BY <2>2, FramesAnnouncedIs, VideoIs DEF VideoInv, Coding
    <3>2. /\ DOMAIN decoded = 1 .. FramesAnnounced /\ decoded = [i \in DOMAIN decoded |-> decoded[i]]
          /\ ~(FramesAnnounced > 0 /\ video.odd)
          /\ \A j \in 1 .. FramesAnnounced : GoodAs(decoded[j], j) /\ ~VectorsCut(file[j])
      BY <2>2 DEF VideoInv, Finished
    <3>3. Frames # <<>> => video.gop # 0
      <4>1. Frames # <<>> => Len(Frames) # 0
        <5>1. Frames \in Seq([y : Seq(0 .. MaxByte), c : Seq(0 .. MaxByte)])
          BY <3>1, VideoAssumption DEF Frames
        <5>2. \A S : Frames \in Seq(S) /\ Len(Frames) = 0 => Frames = <<>>
          BY EmptySeq
        <5> QED BY <5>1, <5>2
      <4>2. Len(file) # 0 => file # <<>>
        OBVIOUS
      <4> QED BY <3>1, <4>1, <4>2 DEF Coding
    <3>4. ~OutOfReach
      BY <3>2, <3>3 DEF OutOfReach
    <3>5. Len(decoded) = FramesAnnounced
      <4> DEFINE S == {decoded[i] : i \in 1 .. FramesAnnounced}
      <4>1. decoded \in [1 .. FramesAnnounced -> S]
        BY <3>2
      <4>2. \A g, m, T : m \in Nat /\ g \in [1 .. m -> T] => g \in Seq(T) /\ Len(g) = m
        OBVIOUS
      <4> HIDE DEF S
      <4> QED BY <3>1, <4>1, <4>2
    <3>6. \A i \in DOMAIN decoded : decoded[i] # NoFrame
      <4> TAKE i \in DOMAIN decoded
      <4>1. i \in DOMAIN Frames /\ FrameLike(decoded[i], i)
        BY <3>1, <3>2 DEF GoodAs
      <4> QED BY <3>1, <4>1, VideoIs
    <3> QED BY <3>1, <3>4, <3>5, <3>6
  <2> QED BY <2>1, <2>2 DEF DecodedToTheEnd
<1> QED BY <1>1, VideoInvariant, PTL

\* video.rs:14: the error of a frame grows by the quality with each frame it was coded from.  It
\* is unbounded where one of them was misread by the image codec or had a difference that
\* overflowed, and where a B frame lost its reference.
THEOREM ErrorsOnlyDrift == VideoSpec => []ErrorDriftsWithTheChain
<1>1. VideoInv => ErrorDriftsWithTheChain
  <2> SUFFICES ASSUME VideoInv, step = "Done", NEW i \in DOMAIN decoded,
                      ~LosesItsReference(i), ~Spoilt(i)
               PROVE  /\ \A k \in DOMAIN Frames[i].y :
                           Difference(decoded[i].y[k], Frames[i].y[k]) <= video.quality * Cardinality(Chain(i))
                      /\ \A k \in DOMAIN Frames[i].c :
                           Difference(decoded[i].c[k], Frames[i].c[k]) <= video.quality * Cardinality(Chain(i))
    BY DEF ErrorDriftsWithTheChain, Spoilt
  <2>1. /\ Coding /\ video \in Videos /\ Len(file) = Len(Frames) /\ i \in 1 .. FramesAnnounced
        /\ GoodAs(decoded[i], i)
    BY DEF VideoInv, Finished, Coding
  <2>2. i \in DOMAIN Frames /\ FrameLike(Frames[i], i) /\ FrameLike(decoded[i], i)
    <3>1. i \in DOMAIN Frames
      BY <2>1, FramesAnnouncedIs, VideoIs
    <3> QED BY <2>1, <3>1, VideoIs DEF GoodAs
  <2>3. Close(decoded[i], i)
    BY <2>1 DEF GoodAs
  <2>4. \A a, b \in 0 .. MaxByte : \A q : Within(a, b, q) => Difference(a, b) <= q
    BY MiddleIs DEF Within, Difference
  <2>5. ASSUME NEW k \in DOMAIN Frames[i].y
        PROVE  Difference(decoded[i].y[k], Frames[i].y[k]) <= Off(i)
    <3>1. decoded[i].y[k] \in 0 .. MaxByte /\ Frames[i].y[k] \in 0 .. MaxByte
      BY <2>2 DEF FrameLike, FrameIn, Plane
    <3> QED BY <2>3, <2>4, <3>1 DEF Close, NearPlane
  <2>6. ASSUME NEW k \in DOMAIN Frames[i].c
        PROVE  Difference(decoded[i].c[k], Frames[i].c[k]) <= Off(i)
    <3>1. decoded[i].c[k] \in 0 .. MaxByte /\ Frames[i].c[k] \in 0 .. MaxByte
      BY <2>2 DEF FrameLike, FrameIn, Plane
    <3> QED BY <2>3, <2>4, <3>1 DEF Close, NearPlane
  <2> QED BY <2>5, <2>6 DEF Off
<1> QED BY <1>1, VideoInvariant, PTL
=============================================================================
