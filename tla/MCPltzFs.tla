------------------------------ MODULE MCPltzFs ------------------------------
(***************************************************************************)
(* Small instances of PltzFs: five blocks in bytes of four bits, so that   *)
(* the bitmap has spare bits; files of no, one and three blocks of two     *)
(* bytes; names that are cut alike, and files named "." and "..".          *)
(***************************************************************************)
EXTENDS PltzFs

CONSTANTS b, c, e

\* The names b and c differ behind the 248th byte; e is "." and a zero byte.
MCNames == {".", "..", b, c, e}
MCShortened == [name \in MCNames |-> IF name = c THEN b ELSE IF name = e THEN "." ELSE name]
MCContents == {"empty", "small", "large"}
MCSizeOf ==
  [d \in MCContents |-> IF d = "empty" THEN 0 ELSE IF d = "small" THEN 1 ELSE 5]
=============================================================================
