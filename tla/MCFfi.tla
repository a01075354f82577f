------------------------------- MODULE MCFfi -------------------------------
(***************************************************************************)
(* Small instances of Ffi: lengths around the sector sizes, on both sides  *)
(* of the threshold of encode (scaled down), and buffers that are too      *)
(* short, exact and long.                                                  *)
(***************************************************************************)
EXTENDS Ffi

MCLengths == 0 .. 24 \union {31, 32, 33, 40, 255, 256, 257, 500, 1000}
MCGoodSizes == {12, 20}
MCCaps == {0, 12, 35, 300}
MCLongLengths == {10028}
=============================================================================
