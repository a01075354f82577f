------------------------------ MODULE Chunked ------------------------------
(***************************************************************************)
(* The PLTS container: encode_chunked and decode_chunked of                *)
(* rust/src/codec.rs.  rayon's workers compress the chunks in any order;   *)
(* the file they are written to may be cut short by a crash of the writer, *)
(* and the decoder must notice.                                            *)
(*                                                                         *)
(* The bytes of the data are numbered, so that loss and reordering show.   *)
(* A compressed chunk is a blob of some length that decode turns back into *)
(* the bytes it was made from (module Pltz).                               *)
(***************************************************************************)
EXTENDS Integers, Sequences, FiniteSets

CONSTANTS
  Lengths,     \* lengths of the data
  ChunkSizes,  \* values of chunk_size
  BlobLens,    \* lengths a compressed chunk can have
  U16, U32,    \* ranges of the count and of the length fields
  None, Refused

HeaderLen == 15   \* magic, version, original length, chunk size, count
LenField  == 4

ASSUME ChunkedAssumption ==
  /\ Lengths \subseteq Nat /\ ChunkSizes \subseteq Nat \ {0}
  /\ U16 \in Nat \ {0} /\ U32 \in Nat \ {0}
  /\ BlobLens \subseteq 1 .. U32 - 1   \* doc/WIRE_FORMAT.md:314
  /\ None # Refused /\ {None, Refused} \intersect Seq(Nat) = {}

Data(len) == [k \in 1 .. len |-> k]
Files == {Data(len) : len \in Lengths}

VARIABLES
  data, chunkSize,  \* the arguments of encode_chunked
  phase,            \* compress, stored, read, done
  blobs,            \* compressed_chunks[i], once a worker has it
  header,           \* the fields of the header
  size,             \* bytes of the file that are there
  offset, chunk,    \* decode_chunked: position, chunks read
  out,              \* decode_chunked: result so far
  result            \* what it returns

vars == <<data, chunkSize, phase, blobs, header, size, offset, chunk, out, result>>

NumChunks == (Len(data) + chunkSize - 1) \div chunkSize

Smaller(a, b) == IF a < b THEN a ELSE b

\* data[start..end] of chunk i
Piece(i) == SubSeq(data, i * chunkSize + 1, Smaller((i + 1) * chunkSize, Len(data)))

\* Where the length field of each chunk starts, and where the file ends.
Positions[k \in 0 .. NumChunks] ==
  IF k = 0 THEN HeaderLen ELSE Positions[k - 1] + LenField + blobs[k - 1].len

Position(i) == Positions[i]

Ok(d) == [ok |-> TRUE, data |-> d]
Err   == [ok |-> FALSE, data |-> <<>>]

Init ==
  /\ data \in Files /\ chunkSize \in ChunkSizes
  /\ phase = "compress"
  /\ blobs = [i \in 0 .. NumChunks - 1 |-> None]
  /\ header = None /\ size = 0
  /\ offset = 0 /\ chunk = 0 /\ out = <<>> /\ result = None

\* A worker's encode of its chunk.
Compress(i) ==
  /\ phase = "compress" /\ blobs[i] = None
  /\ \E len \in BlobLens : blobs' = [blobs EXCEPT ![i] = [len |-> len, piece |-> Piece(i)]]
  /\ UNCHANGED <<data, chunkSize, phase, header, size, offset, chunk, out, result>>

\* collect() has all the chunks, in the order of their indices.
Store ==
  /\ phase = "compress" /\ \A i \in DOMAIN blobs : blobs[i] # None
  /\ header' = [originalLen |-> Len(data) % U32, count |-> NumChunks % U16]
  /\ size' = Position(NumChunks)
  /\ phase' = "stored"
  /\ UNCHANGED <<data, chunkSize, blobs, offset, chunk, out, result>>

\* The writer stops in the middle of fs::write.
CutShort ==
  /\ phase = "stored" /\ size = Position(NumChunks)
  /\ \E left \in 0 .. size - 1 : size' = left
  /\ UNCHANGED <<data, chunkSize, phase, blobs, header, offset, chunk, out, result>>

Answer(r) == phase' = "done" /\ result' = r

\* Mutant of ReadHeader: a file shorter than a header is waited for.
ReadHeaderWaits ==
  /\ phase = "stored" /\ size >= HeaderLen
  /\ phase' = "read" /\ offset' = HeaderLen
  /\ UNCHANGED <<data, chunkSize, blobs, header, size, chunk, out, result>>

ReadHeader ==
  /\ phase = "stored"
  /\ IF size < HeaderLen
     THEN Answer(Err) /\ UNCHANGED offset
     ELSE phase' = "read" /\ offset' = HeaderLen /\ UNCHANGED result
  /\ UNCHANGED <<data, chunkSize, blobs, header, size, chunk, out>>

\* Mutant of ReadChunk: only the length field is checked to be there.
ReadChunkUnchecked ==
  /\ phase = "read" /\ chunk < header.count
  /\ IF offset + LenField > size
     THEN /\ Answer(Err)
          /\ UNCHANGED <<offset, chunk, out>>
     ELSE /\ out' = out \o blobs[chunk].piece
          /\ offset' = offset + LenField + blobs[chunk].len
          /\ chunk' = chunk + 1
          /\ UNCHANGED <<phase, result>>
  /\ UNCHANGED <<data, chunkSize, blobs, header, size>>

\* Mutant of ReadChunk: the length field is not stepped over.
ReadChunkNoField ==
  /\ phase = "read" /\ chunk < header.count
  /\ IF offset + LenField > size \/ offset + LenField + blobs[chunk].len > size
     THEN /\ Answer(Err)
          /\ UNCHANGED <<offset, chunk, out>>
     ELSE /\ out' = out \o blobs[chunk].piece
          /\ offset' = offset + blobs[chunk].len
          /\ chunk' = chunk + 1
          /\ UNCHANGED <<phase, result>>
  /\ UNCHANGED <<data, chunkSize, blobs, header, size>>

\* Mutant of ReadChunk: the end of the file ends the loop.
ReadChunkStops ==
  /\ phase = "read" /\ chunk < header.count
  /\ IF offset + LenField > size \/ offset + LenField + blobs[chunk].len > size
     THEN /\ chunk' = header.count
          /\ UNCHANGED <<offset, out, phase, result>>
     ELSE /\ out' = out \o blobs[chunk].piece
          /\ offset' = offset + LenField + blobs[chunk].len
          /\ chunk' = chunk + 1
          /\ UNCHANGED <<phase, result>>
  /\ UNCHANGED <<data, chunkSize, blobs, header, size>>

\* Mutant of ReadChunk: a chunk that ends with the file is refused.
ReadChunkAtEnd ==
  /\ phase = "read" /\ chunk < header.count
  /\ IF offset + LenField > size \/ offset + LenField + blobs[chunk].len >= size
     THEN /\ Answer(Err)
          /\ UNCHANGED <<offset, chunk, out>>
     ELSE /\ out' = out \o blobs[chunk].piece
          /\ offset' = offset + LenField + blobs[chunk].len
          /\ chunk' = chunk + 1
          /\ UNCHANGED <<phase, result>>
  /\ UNCHANGED <<data, chunkSize, blobs, header, size>>

\* One turn of the loop, with the two bounds checks in their order.
ReadChunk ==
  /\ phase = "read" /\ chunk < header.count
  /\ IF offset + LenField > size \/ offset + LenField + blobs[chunk].len > size
     THEN /\ Answer(Err)
          /\ UNCHANGED <<offset, chunk, out>>
     ELSE /\ out' = out \o blobs[chunk].piece
          /\ offset' = offset + LenField + blobs[chunk].len
          /\ chunk' = chunk + 1
          /\ UNCHANGED <<phase, result>>
  /\ UNCHANGED <<data, chunkSize, blobs, header, size>>

\* truncate(original_len)
Finish ==
  /\ phase = "read" /\ chunk = header.count
  /\ Answer(Ok(SubSeq(out, 1, Smaller(header.originalLen, Len(out)))))
  /\ UNCHANGED <<data, chunkSize, blobs, header, size, offset, chunk, out>>

Decoding == ReadHeader \/ ReadChunk \/ Finish
Encoding == (\E i \in DOMAIN blobs : Compress(i)) \/ Store

Next == Encoding \/ CutShort \/ Decoding

\* Both calls return: rayon runs every chunk, and the loop is bounded by count.
Spec == Init /\ [][Next]_vars /\ WF_vars(Encoding) /\ WF_vars(Decoding)

-----------------------------------------------------------------------------
(* Properties *)

\* Every variable has its type.
TypeOK ==
  /\ data \in Files /\ chunkSize \in ChunkSizes
  /\ phase \in {"compress", "stored", "read", "done"}
  /\ \A i \in DOMAIN blobs : blobs[i] # None => blobs[i].len \in BlobLens
  /\ size \in Nat /\ offset \in 0 .. size /\ chunk \in Nat
  /\ result = None \/ result.ok \in BOOLEAN

\* The header can say how many chunks and bytes there are.
FitsHeader == NumChunks < U16 /\ Len(data) < U32

\* The decoder stands where a chunk starts, whatever the lengths before it were, and
\* has exactly the bytes of the chunks before.
AtChunkBoundary ==
  phase = "read" =>
    /\ offset = Position(chunk)
    /\ out = SubSeq(data, 1, Smaller(chunk * chunkSize, Len(data)))

\* Whatever decode_chunked accepts is the data; SESSION.md:13 "Functions must exactly
\* reproduce every byte".
AcceptsOnlyTheData == result # None /\ result.ok /\ FitsHeader => result.data = data

\* doc/WIRE_FORMAT.md:315, which knows no limit on the file size.
AcceptsOnlyTheDataOfAnySize == result # None /\ result.ok => result.data = data

\* A file cut short anywhere, even between two chunks, is refused, and a whole
\* one is not.
CutFileRefused ==
  result # None /\ FitsHeader => (result.ok <=> size = Position(NumChunks))

-----------------------------------------------------------------------------
(* Refinement: with a header that fits, PLTS is a lossless channel. *)

Channel == INSTANCE LosslessChannel WITH
  Messages <- Files,
  Nothing  <- None,
  Refused  <- Refused,
  sent     <- data,
  intact   <- phase = "compress" \/ size = Position(NumChunks),
  received <- IF result = None THEN None
              ELSE IF result.ok THEN result.data ELSE Refused

ChannelSpec == Channel!Spec
=============================================================================
