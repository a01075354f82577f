-------------------------------- MODULE Ffi --------------------------------
(***************************************************************************)
(* The C interface, rust/src/ffi.rs, and a caller that uses it as          *)
(* clib/README.md does: buffers belong to the caller, a length is given    *)
(* and answered through one pointer, and -1 is the only error, so that a   *)
(* caller tells a file that is refused from a buffer that is too short     *)
(* only by comparing the length with what it gave.                         *)
(*                                                                         *)
(* Data is a record of its length, of the size encode gets it to, and of   *)
(* what decode makes of the file: the data or less (the length fields wrap *)
(* and chunks get lost, modules Chunked and Columnar), or an error (module *)
(* Pltz; or the file was damaged in between).                              *)
(***************************************************************************)
EXTENDS Integers

CONSTANTS
  Lengths,   \* lengths of data
  GoodSizes, \* sizes of files made of data with patterns
  Caps,      \* sizes of buffers callers come with
  ChunkSize, \* 65536: chunk_size of encode for data above Threshold
  Threshold, \* 2^20
  U32,       \* 2^32, the range of the length fields
  None,
  Refused    \* decode answers Err

ASSUME FfiAssumption ==
  /\ Lengths \subseteq Nat /\ Caps \subseteq Nat /\ U32 \in Nat \ {0}
  /\ \A s \in GoodSizes : s \in Nat /\ s >= 12
  /\ ChunkSize \in Nat \ {0} /\ Threshold \in Nat
  /\ Refused \notin Nat

Candidates == {8, 16, 32, 64, 128, 256, 512}

-----------------------------------------------------------------------------
(* How large a file of incompressible bytes is (codec.rs) *)

\* A full track: raw, and at 8 bytes a pair of words, which is always linear.
FullTrack(s) == 3 + (IF s = 8 THEN 19 ELSE s)

\* The last track holds r bytes and zeros: one run for each byte and one for the
\* zeros, if that pays.
TailIsRle(r, s) == 2 * (r + 1) < s
TailTrack(r, s) ==
  IF r = 0 THEN 0
  ELSE IF TailIsRle(r, s) THEN 3 + 2 + 2 * (r + 1)
  ELSE FullTrack(s)

Tracks(len, s) == (len \div s) * FullTrack(s) + TailTrack(len % s, s)

\* best_geometry takes the first of the smallest.
Sectors(len) ==
  CHOOSE s \in Candidates : \A r \in Candidates :
    Tracks(len, s) < Tracks(len, r) \/ (Tracks(len, s) = Tracks(len, r) /\ s <= r)

\* The tail goes to the structured platter when it is not raw.
Platters(len, s) ==
  IF s = 8 THEN 1
  ELSE IF len % s # 0 /\ TailIsRle(len % s, s) /\ len >= s THEN 2 ELSE 1

PlainSize(len) ==
  IF len = 0 THEN 12
  ELSE 12 + 2 * Platters(len, Sectors(len)) + Tracks(len, Sectors(len))

IncompressibleSize(len) ==
  IF len <= Threshold THEN PlainSize(len)
  ELSE 15 + (len \div ChunkSize) * (4 + PlainSize(ChunkSize))
          + (IF len % ChunkSize = 0 THEN 0 ELSE 4 + PlainSize(len % ChunkSize))

Magic(len) == IF len > Threshold THEN "PLTS" ELSE "PLTZ"

\* pltz_max_compressed_size
MaxCompressedSize(len) == len + 64 + len \div 100

-----------------------------------------------------------------------------
VARIABLES
  data,      \* the caller's data
  phase,     \* what the caller does next
  cap,       \* *output_len before the call
  rc,        \* what the call returned
  outLen,    \* *output_len after it
  file,      \* the compressed file, or None
  got,       \* how much pltz_decompress delivered
  attempts   \* calls of pltz_decompress so far

ffiVars == <<data, phase, cap, rc, outLen, file, got, attempts>>

FfiInit ==
  /\ \E len \in Lengths :
     \E size \in GoodSizes \union {IncompressibleSize(len)},
        decoded \in {d \in Lengths : d <= len} \union {Refused} :
       data = [len |-> len, size |-> size, decoded |-> decoded]
  /\ phase = "allocate" /\ cap = 0 /\ rc = None /\ outLen = 0
  /\ file = None /\ got = None /\ attempts = 0

\* The caller allocates what pltz_max_compressed_size says, or brings a buffer.
Allocate ==
  /\ phase = "allocate"
  /\ cap' \in {MaxCompressedSize(data.len)} \union Caps
  /\ phase' = "compress"
  /\ UNCHANGED <<data, rc, outLen, file, got, attempts>>

\* Mutant of Compress: the length is returned, as by other libraries.
CompressReturnsLength ==
  /\ phase = "compress" /\ data.size <= cap
  /\ rc' = data.size
  /\ file' = [magic |-> Magic(data.len), len |-> data.size, original |-> data.len % U32]
  /\ outLen' = data.size
  /\ phase' = "size"
  /\ UNCHANGED <<data, cap, got, attempts>>

Compress ==
  /\ phase = "compress"
  /\ IF data.size > cap
     THEN /\ rc' = -1
          /\ outLen' = cap
          /\ phase' = "refused"
          /\ UNCHANGED file
     ELSE /\ rc' = 0
          /\ file' = [magic |-> Magic(data.len), len |-> data.size, original |-> data.len % U32]
          /\ outLen' = data.size
          /\ phase' = "size"
  /\ UNCHANGED <<data, cap, got, attempts>>

\* pltz_decompressed_size: three layouts, and 0 for a file shorter than a header.
DecompressedSize ==
  IF file.len < 12 \/ (file.magic = "PLTS" /\ file.len < 15) THEN 0 ELSE file.original

\* The caller sizes its buffer by the header, or brings one.
AllocateForOutput ==
  /\ phase = "size"
  /\ cap' \in {DecompressedSize} \union Caps
  /\ phase' = "decompress"
  /\ UNCHANGED <<data, rc, outLen, file, got, attempts>>

\* What decode answered is delivered if it fits; otherwise its length is, with -1. The
\* error of decode is -1 too, and leaves the length as it was.
Answer(told, filled) ==
  /\ phase = "decompress"
  /\ attempts' = attempts + 1
  /\ IF data.decoded = Refused
     THEN /\ rc' = -1 /\ outLen' = cap
          /\ phase' = "refusedOrShort"
          /\ UNCHANGED got
     ELSE IF data.decoded > cap
     THEN /\ rc' = -1 /\ outLen' = told
          /\ phase' = "refusedOrShort"
          /\ UNCHANGED got
     ELSE /\ rc' = 0 /\ outLen' = data.decoded
          /\ got' = filled
          /\ phase' = "done"
  /\ UNCHANGED <<data, cap, file>>

\* Mutant of Decompress: a buffer that is too short is answered with its own length.
DecompressNoLength == Answer(cap, data.decoded)

\* Mutant of Decompress: as much is copied as the buffer holds.
DecompressFills == Answer(data.decoded, cap)

Decompress == Answer(data.decoded, data.decoded)

\* The caller takes the length the failed call answered, if it asks for more.
Reallocate ==
  /\ phase = "refusedOrShort" /\ outLen > cap
  /\ cap' = outLen
  /\ phase' = "decompress"
  /\ UNCHANGED <<data, rc, outLen, file, got, attempts>>

\* The buffer was long enough: the file is no good.
GiveUp ==
  /\ phase = "refusedOrShort" /\ outLen <= cap
  /\ phase' = "failed"
  /\ UNCHANGED <<data, cap, rc, outLen, file, got, attempts>>

FfiNext ==
  \/ Allocate \/ Compress
  \/ AllocateForOutput \/ Decompress \/ Reallocate \/ GiveUp

\* Each call returns and the caller goes on.
FfiSpec == FfiInit /\ [][FfiNext]_ffiVars /\ WF_ffiVars(FfiNext)

-----------------------------------------------------------------------------
(* Properties *)

\* Every variable has its type.
FfiTypeOK ==
  /\ phase \in {"allocate", "compress", "refused", "size", "decompress", "refusedOrShort",
               "done", "failed"}
  /\ cap \in Nat /\ outLen \in Nat
  /\ rc \in {None, 0, -1}

\* A buffer that was too short is too short once: the length the failing call answers is
\* enough for the next. A caller that compares this length with what it gave takes neither
\* error for the other: it gives up exactly on files that decode refuses.
OneRetryIsEnough ==
  /\ attempts <= 2
  /\ attempts = 2 => phase = "done"
  /\ phase = "failed" => data.decoded = Refused
  /\ data.decoded = Refused => attempts <= 1

\* Whoever compressed gets what decode makes of the file, however short the buffers, or is
\* told that it makes nothing of it.
Delivered ==
  /\ (file # None /\ data.decoded # Refused) ~> (got = data.decoded)
  /\ (file # None /\ data.decoded = Refused) ~> (phase = "failed" /\ got = None)

\* pltz.h:47 "Use this to allocate the output buffer for compression".
MaxSizeSuffices == phase = "refused" => cap < MaxCompressedSize(data.len)
=============================================================================
