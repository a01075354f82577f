------------------------------ MODULE LossyRow ------------------------------
(***************************************************************************)
(* How rust/src/image.rs fits one row of pixels when it may lose some:     *)
(* the mean, a line, a parabola or a cubic, the first that is within       *)
(* quality of every pixel, or else the row itself.                         *)
(*                                                                         *)
(* The mean is computed exactly.  What the least squares fits (floating    *)
(* point) predict is an oracle: any values, in halves, that pass the       *)
(* check of the code; and any of them may be the first to pass.            *)
(***************************************************************************)
EXTENDS Integers, Sequences, FiniteSets

CONSTANTS
  MaxPixel,     \* 2^8 - 1 or 2^16 - 1
  PixelBytes,   \* 1 or 2
  Qualities,    \* values of quality but 0, which stands for a PLTZ file
  CoefBytes,    \* 8, bytes of a coefficient
  U16,          \* 2^16, the range of the length of the parameters
  Fits          \* the tags of fitted rows: LINEAR, POLY2, POLY3

ASSUME LossyRowAssumption ==
  /\ MaxPixel \in Nat /\ MaxPixel % 2 = 1 /\ PixelBytes \in {1, 2} /\ Qualities \subseteq Nat \ {0}
  /\ CoefBytes \in Nat \ {0} /\ U16 \in Nat \ {0}
  /\ Fits \subseteq {"LINEAR", "POLY2", "POLY3"}

Distance(a, b) == IF a < b THEN b - a ELSE a - b

SumOf(row) ==
  LET sum[k \in 0 .. Len(row)] == IF k = 0 THEN 0 ELSE sum[k - 1] + row[k]
  IN  sum[Len(row)]

\* Mutant of Pixel: the cast to a byte comes without the clamp.
PixelUnclamped(h) == (h + 1) \div 2

\* round and clamp, of h halves; a tie goes away from zero
Pixel(h) ==
  IF h < 0 THEN 0 ELSE IF (h + 1) \div 2 > MaxPixel THEN MaxPixel ELSE (h + 1) \div 2

\* try_const_lossy: every pixel is within quality of the mean, which is then rounded.
\* The mean of no pixel is NaN, which passes and is cast to 0.
ConstFits(row, q) ==
  \A i \in DOMAIN row : Distance(Len(row) * row[i], SumOf(row)) <= Len(row) * q

ConstOf(row) == IF row = <<>> THEN 0 ELSE (2 * SumOf(row) + Len(row)) \div (2 * Len(row))

\* Mutant of Predictions: the error is compared with quality after it is rounded down.
PredictionsFloored(row, q) ==
  {[i \in DOMAIN row |-> 2 * row[i] + e[i]] : e \in [DOMAIN row -> - (2 * q + 1) .. 2 * q + 1]}

\* try_linear_lossy, try_poly_lossy: the values a fitted function may have, in halves.
Predictions(row, q) ==
  {[i \in DOMAIN row |-> 2 * row[i] + e[i]] : e \in [DOMAIN row -> - (2 * q) .. 2 * q]}

Coefficients(tag) == IF tag = "LINEAR" THEN 2 ELSE IF tag = "POLY2" THEN 3 ELSE 4

\* fit_row_lossy: the encodings a row may get
FitRowLossy(row, q) ==
  IF ConstFits(row, q) THEN {[tag |-> "CONST", params |-> ConstOf(row), len |-> PixelBytes]}
  ELSE {[tag |-> tag, params |-> h, len |-> CoefBytes * Coefficients(tag)] :
          tag \in Fits, h \in Predictions(row, q)}
       \union {[tag |-> "RAW", params |-> row, len |-> Len(row) * PixelBytes]}

\* reconstruct_row, of a row of n pixels
ReconstructRow(enc, n) ==
  IF enc.tag = "CONST" THEN [i \in 1 .. n |-> enc.params]
  ELSE IF enc.tag = "RAW" THEN enc.params
  ELSE [i \in 1 .. n |-> Pixel(enc.params[i])]
=============================================================================
