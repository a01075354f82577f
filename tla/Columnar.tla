------------------------------ MODULE Columnar ------------------------------
(***************************************************************************)
(* The PLTC wrapper: rust/src/columnar.rs, encode_auto of codec.rs, the    *)
(* search of --best (find_best_compression of main.rs), which writes the   *)
(* wrapper a second time, and the PLTC branch of decode.  The data is      *)
(* transposed as a matrix of records of stride bytes before it is encoded, *)
(* if that makes it smaller.                                               *)
(*                                                                         *)
(* Bytes of the data are numbered from 1, so that a byte out of place and  *)
(* a padding byte (0) show.  What the inner encode makes of its input is   *)
(* decoded back to it (module Pltz) unless it is too long for the fields   *)
(* of the chunked format (module Chunked); how small it gets is in Sizes.  *)
(***************************************************************************)
EXTENDS Integers, Sequences, FiniteSets

CONSTANTS
  Lengths,      \* lengths of the data
  StrideLists,  \* values of the argument strides
  Sizes,        \* sizes the inner encoder may answer
  U16,          \* 2^16, the range of the stride and of the count of chunks
  U32,          \* 2^32, the range of the length fields
  Threshold,    \* 2^20: encode cuts longer data in chunks
  ChunkSize,    \* 65536: of this size
  MaxStride,    \* 1024, the longest stride detect_strides looks for
  BestChunks,   \* 4096 to 65536, the chunk sizes --best tries
  NotYet

WrapperLen == 10

ASSUME ColumnarAssumption ==
  /\ Lengths \subseteq Nat \ {0}
  /\ StrideLists \subseteq Seq(Nat)
  /\ Sizes \subseteq Nat
  /\ U16 \in Nat \ {0} /\ NotYet \notin Nat
  /\ Threshold \in Nat /\ U32 \in Nat /\ Threshold < U32 /\ ChunkSize \in Nat \ {0}
  /\ MaxStride \in Nat /\ MaxStride < U16 /\ BestChunks \subseteq Nat

-----------------------------------------------------------------------------
(* columnar.rs.  A vector is a record of its length and its bytes from 0. *)

Rows(len, stride) == (len + stride - 1) \div stride

\* Vec::resize(len, 0)
Resized(v, len) ==
  [len |-> len, at |-> [k \in 0 .. len - 1 |-> IF k < v.len THEN v.at[k] ELSE 0]]

\* Column by column, over the padded matrix.
ColumnarTransform(v, stride) ==
  IF stride = 0 \/ v.len = 0 THEN v
  ELSE LET rows   == Rows(v.len, stride)
           padded == Resized(v, rows * stride)
       IN  [len |-> padded.len,
            at  |-> [k \in 0 .. padded.len - 1 |-> padded.at[(k % rows) * stride + k \div rows]]]

\* Mutant of ColumnarUntransform: the transform taken for its own inverse.
UntransformAsTransform(v, stride, originalLen) ==
  [ColumnarTransform(v, stride) EXCEPT !.len = originalLen]

\* Row by row, and the padding cut off.
ColumnarUntransform(v, stride, originalLen) ==
  IF stride = 0 \/ v.len = 0 THEN v
  ELSE LET rows   == Rows(originalLen, stride)
           padded == Resized(v, rows * stride)
       IN  [len |-> originalLen,
            at  |-> [k \in 0 .. originalLen - 1 |-> padded.at[(k % stride) * rows + k \div stride]]]

-----------------------------------------------------------------------------
(* encode and decode of what is wrapped (codec.rs).  Above the threshold it is chunked: *)
(* the decoder reads as many chunks as the count says and cuts at the length.           *)

ChunkCount(len) == (len + ChunkSize - 1) \div ChunkSize

Reread(v) ==
  IF v.len <= Threshold THEN v
  ELSE LET read == (ChunkCount(v.len) % U16) * ChunkSize
           cut  == v.len % U32
           m    == IF read < cut THEN read ELSE cut
       IN  [len |-> m, at |-> [k \in 0 .. m - 1 |-> v.at[k]]]

-----------------------------------------------------------------------------
VARIABLES
  data, strides,  \* the arguments of encode_auto
  tried,          \* turns of its loop, or NotYet before the plain encoding
  best,           \* the smallest file so far
  result          \* what decode makes of it

columnarVars == <<data, strides, tried, best, result>>

ColumnarInit ==
  /\ data \in {[len |-> l, at |-> [k \in 0 .. l - 1 |-> k + 1]] : l \in Lengths}
  /\ strides \in StrideLists
  /\ tried = NotYet /\ best = NotYet /\ result = NotYet

EncodePlain ==
  /\ tried = NotYet
  /\ \E size \in Sizes : best' = [magic |-> "PLTZ", size |-> size, inner |-> data]
  /\ tried' = 0
  /\ UNCHANGED <<data, strides, result>>

\* Mutant of SkipStride: the loop goes on twice.
SkipStrideTwice ==
  /\ tried \in 0 .. Len(strides) - 1
  /\ strides[tried + 1] = 0 \/ strides[tried + 1] >= data.len
  /\ tried' = tried + 2
  /\ UNCHANGED <<data, strides, best, result>>

\* A stride that makes no matrix is passed over.
SkipStride ==
  /\ tried \in 0 .. Len(strides) - 1
  /\ strides[tried + 1] = 0 \/ strides[tried + 1] >= data.len
  /\ tried' = tried + 1
  /\ UNCHANGED <<data, strides, best, result>>

TryStride ==
  /\ tried \in 0 .. Len(strides) - 1
  /\ LET stride == strides[tried + 1] IN
     /\ stride # 0 /\ stride < data.len
     /\ \E size \in Sizes :
          best' = IF WrapperLen + size < best.size
                  THEN [magic |-> "PLTC", size |-> WrapperLen + size,
                        originalLen |-> data.len % U32, stride |-> stride % U16,
                        inner |-> ColumnarTransform(data, stride)]
                  ELSE best
  /\ tried' = tried + 1
  /\ UNCHANGED <<data, strides, result>>

\* find_best_compression: the strides and the chunk sizes are tried in parallel with a
\* fast compressor, and the winner is encoded again with the best one, which may make it
\* larger than a loser.
FindBest ==
  /\ tried = NotYet
  /\ \E size \in Sizes :
       \/ best' = [magic |-> "PLTZ", size |-> size, inner |-> data]
       \/ \E stride \in 2 .. MaxStride :
            /\ stride <= data.len \div 4
            /\ best' = [magic |-> "PLTC", size |-> WrapperLen + size,
                        originalLen |-> data.len % U32, stride |-> stride % U16,
                        inner |-> ColumnarTransform(data, stride)]
       \/ \E chunk \in BestChunks : chunk < data.len /\ best' = [magic |-> "PLTS", size |-> size]
  /\ tried' = Len(strides)
  /\ UNCHANGED <<data, strides, result>>

\* What becomes of a PLTS file of --best is in module Chunked.
Unwrap ==
  /\ tried = Len(strides) /\ result = NotYet /\ best.magic # "PLTS"
  /\ result' = IF best.magic = "PLTZ" THEN Reread(best.inner)
               ELSE ColumnarUntransform(Reread(best.inner), best.stride, best.originalLen)
  /\ UNCHANGED <<data, strides, tried, best>>

ColumnarNext == EncodePlain \/ SkipStride \/ TryStride \/ FindBest \/ Unwrap

ColumnarSpec == ColumnarInit /\ [][ColumnarNext]_columnarVars

-----------------------------------------------------------------------------
(* Properties *)

\* Every variable has its type.
ColumnarTypeOK ==
  /\ data.len \in Lengths /\ data.at \in [0 .. data.len - 1 -> Nat]
  /\ strides \in StrideLists
  /\ tried \in 0 .. Len(strides) \union {NotYet}
  /\ best # NotYet => best.magic \in {"PLTZ", "PLTC", "PLTS"}

\* The fields say how long v is and in how many chunks.
FieldsHold(v) == v.len < U32 /\ (v.len <= Threshold \/ ChunkCount(v.len) < U16)

\* A stride that a u16 holds is undone by the decoder, the padding it needed included, while
\* the fields hold the data and what it was transposed to; data whose length a u32 does not
\* hold is never found again, although decode answers Ok.
StrideUndone ==
  result # NotYet =>
    /\ /\ FieldsHold(data) /\ FieldsHold(best.inner)
       /\ \A k \in DOMAIN strides : strides[k] < U16
       => result = data
    /\ data.len >= U32 => result.len < data.len

\* README.md:249 "fixed-size records of the given byte length": of any length.
EveryStrideUndone ==
  result # NotYet /\ FieldsHold(data) /\ FieldsHold(best.inner) => result = data
=============================================================================
