---------------------------- MODULE MCTrackCodec ----------------------------
(***************************************************************************)
(* Small instances of TrackCodec.  Each track of Designed is what one      *)
(* detector is for; Chunks adds the same tracks with a byte changed, which *)
(* the detector must then refuse, and their halves, which combine.         *)
(***************************************************************************)
EXTENDS TrackCodec

Seq0(f(_)) == [k \in 1 .. n |-> f(k - 1) % 256]

\* Bytes of 16 and of 32 bit little endian words that stay below 2^24.
Words16(f(_)) == Seq0(LAMBDA i : f(i \div 2) \div (256^(i % 2)))
Words32(f(_)) == Seq0(LAMBDA i : f(i \div 4) \div (256^(i % 4)))

Noise(i) == 17 + i * i * i * 7 + i * 91

Designed ==
  {Seq0(LAMBDA i : 7),                                     \* Const
   Seq0(LAMBDA i : 10 + 5 * i),                            \* Linear
   Seq0(LAMBDA i : 250 - 3 * i),
   Seq0(LAMBDA i : IF i < n - 2 THEN 80 ELSE 90),          \* Rle, beyond MaxRun
   Seq0(LAMBDA i : Noise(i % 3)),                          \* Repeat
   Words16(LAMBDA i : 1000 + 300 * i),                     \* LinearWide
   Words16(LAMBDA i : 65000 - 1000 * i),
   Words32(LAMBDA i : 70000 + 70001 * i),
   Words32(LAMBDA i : 1000000 - 65537 * i),
   Words32(LAMBDA i : 65533 + ((5 * i) % 7)),                \* DeltaWide, one byte
   Words32(LAMBDA i : 131072 - ((i * i * 300) % 1000)),      \* DeltaWide, two bytes
   Seq0(LAMBDA i : (i * i * 5) % 61),                      \* BitPacked
   Seq0(LAMBDA i : 100 + 40 * (i % 2) + 20 * ((i \div 3) % 4)),  \* Delta
   Seq0(LAMBDA i : 240 - i * (31 - i)),                    \* DiffTable
   Seq0(LAMBDA i : 100 + ((i - 5) * (i - 6) * (i - 7)) \div 6),
   Seq0(LAMBDA i : 100 + 150 * i),                         \* ModArith
   Seq0(LAMBDA i : (149 * i + 7) % 200),
   Seq0(LAMBDA i : (184 * i + 7) % 200),
   Seq0(LAMBDA i : <<1, 3, 7, 15, 31, 63, 127, 255>>[(i % 8) + 1]
                     + (i \div 8) * 96),
   Seq0(LAMBDA i : IF (i % 4) = 1 THEN 100 + i * i ELSE 200),   \* Sparse
   Seq0(LAMBDA i : 100 + 37 * (i % 10) + 11 * (i \div 10)),
   Seq0(LAMBDA i : IF i < n \div 2 THEN Noise(i) ELSE Noise(n - 1 - i)),  \* Mirror
   Seq0(LAMBDA i : IF i < n \div 2 THEN 90 + 9 * i ELSE 200 - 7 * i),  \* PiecewiseLinear
   Seq0(LAMBDA i : IF i < n \div 3 THEN 100 + 3 * i
                   ELSE IF i < 2 * (n \div 3) THEN 250 - 2 * i ELSE 13 * (i % 19)),
   Seq0(LAMBDA i : 20 + 60 * ((4 * i) \div n) + <<3, -5, 1, -2>>[(4 * i) \div n + 1] * (i % 8)),
   Seq0(LAMBDA i : IF (i % 2) = 0 THEN 100 + 37 * (i \div 2) ELSE 200 - 10 * (i \div 2)),
   Seq0(LAMBDA i : IF i < 11 THEN 70 + i                   \* DeltaRle
                   ELSE IF i < 22 THEN 92 - i ELSE 60 + (i - 20) * (i - 20)),
   Seq0(LAMBDA i : Xor(3 + 7 * i, 170)),                   \* XorMask
   Seq0(LAMBDA i : Xor(253 - 7 * i, 15)),
   Seq0(LAMBDA i : Noise(i \div 2)),                       \* as many bytes in runs
   Seq0(LAMBDA i : Noise(i)),                              \* Raw
   Seq0(LAMBDA i : Noise(i % (n \div 2)))}                 \* Raw, few values

\* A recurrence over the two bytes before has no closed form.
Recurrence(c1, c2) ==
  LET two[k \in 2 .. n] ==
        IF k = 2 THEN <<3, 5>>
        ELSE LET v == two[k - 1] IN <<v[2], (c1 * v[2] + c2 * v[1]) % 256>>
  IN  [k \in 1 .. n |-> IF k = 1 THEN 3 ELSE two[k][2]]

Whole == Designed \union {Recurrence(1, 1), Recurrence(3, 16)}

Changed ==
  {[t EXCEPT ![k] = (@ + 1) % 256] : t \in Whole, k \in {1, 2, n \div 2, n}}

Halves == {SubSeq(t, 1, n \div 2) : t \in Designed}

MCChunks == Whole \union Changed \union Halves
=============================================================================
