----------------------------- MODULE MCColumnar -----------------------------
(***************************************************************************)
(* Small instances of Columnar: strides that divide the length, strides    *)
(* that leave padding in the last record, strides that are passed over,    *)
(* strides too wide for their field, and lengths around those that the     *)
(* count of chunks and the length field can say.                           *)
(***************************************************************************)
EXTENDS Columnar

MCLengths == 1 .. 13 \union 20 .. 27
MCStrideLists == {<<a, b>> : a, b \in 0 .. 9} \union {<<>>}
MCSizes == {0, 3, 15}
=============================================================================
