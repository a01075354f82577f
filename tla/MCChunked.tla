------------------------------ MODULE MCChunked ------------------------------
(***************************************************************************)
(* Small instances of Chunked: chunks that divide the data and chunks that *)
(* do not, data of a single chunk, no data at all, and a count that wraps. *)
(***************************************************************************)
EXTENDS Chunked

MCLengths == {0, 1, 4, 5, 6}
MCChunkSizes == {2, 3}
MCBlobLens == {1, 3}
MCManyLengths == {5}
MCOneByteChunks == {1}
=============================================================================
